---- MODULE Spec2Model ----
(***************************************************************************)
(* Model of Kando's IPC server (src/common/ipc/ipc-server.ts): the         *)
(* per-connection observer registration kept by handleConnection, the      *)
(* server-wide observer-ID counter, the events the server emits to the     *)
(* host application and the messages it sends on each WebSocket.           *)
(*                                                                         *)
(* The host application is modelled as an adversary: it may invoke any     *)
(* callback set it was ever handed by a 'start-observing' event, at any    *)
(* time.  JavaScript runs every handler to completion, so each handler is  *)
(* one atomic action.  A callback the host invokes from inside its         *)
(* 'start-observing' listener runs after the last statement of             *)
(* startObserving and is the callback action taken as the next step.       *)
(*                                                                         *)
(* Spec is the server alone, with arbitrary peers on its connections.      *)
(* SpecClient couples the server with one reference client                 *)
(* (IPCObserverClient of cross-websocket.ts or IPCShowMenuClient): the     *)
(* client object, its transport, the frames in flight in both directions,  *)
(* and the server's handlers for the client's connection.                  *)
(* SpecServer is the life cycle of the server object alone: init(), the    *)
(* 'listening' and 'error' events of its WebSocketServer, close(), and     *)
(* the discovery file ipc-info.json.  In Spec and SpecClient the server    *)
(* is listening and stays so.  SpecFields is Spec with peers that also     *)
(* send requests carrying a key their schema does not define.              *)
(*                                                                         *)
(* SpecPointer is a PointerInput object (menu input by mouse and           *)
(* keyboard) driven by arbitrary mouse, key and method calls; it is        *)
(* independent of the IPC classes, which do not exist in it.  SpecDialog   *)
(* is a SavePresetDialog component with its user and the onSave callback   *)
(* of its parent; React renders after every handler, so a handler sees     *)
(* the state the previous one left.                                        *)
(***************************************************************************)
EXTENDS Integers, Sequences, FiniteSets, TLC

\* ---------------------------------------------------------------- bounds
\* Number of WebSocket connections the server accepts in one run.
NumConns == 2
\* Number of init() calls made on one server object.
MaxInits == 2
\* The persistent-ID counter is not advanced beyond this value.
MaxObserverID == 2
\* Frames in flight in one direction between the server and the client.
MaxInFlight == 2

Conns == 1..NumConns

\* ------------------------------------------------------- wire vocabulary
\* The interactions the host reports, an InteractionTarget and a menu path:
\* the hover and the selection of the repository's show-menu test.
HoverInputs == {[target |-> "submenu", path |-> <<0, 1, 2>>]}
SelectInputs == {[target |-> "item", path |-> <<0, 1>>]}

NoTarget == "none"
NoReason == "none"
NoMenu == "none"

\* Menus a client may put into a show-menu request; "TestMenu" satisfies
\* MENU_ITEM_SCHEMA, "invalid" does not.
Menus == {"TestMenu", "invalid"}

\* Raw frames a client may send: text that is not JSON, and JSON objects
\* with a type tag (and a menu for show-menu).
Inbound ==
  {[json |-> FALSE, type |-> "none", menu |-> NoMenu]}
    \cup {[json |-> TRUE, type |-> "show-menu", menu |-> m] : m \in Menus}
    \cup {[json |-> TRUE, type |-> t, menu |-> NoMenu] :
            t \in {"start-observing", "stop-observing", "unknown"}}

\* JSON objects with the tag of a request that has no payload, and a menu
\* key, which START_OBSERVING_MESSAGE and STOP_OBSERVING_MESSAGE do not
\* define.
ExtraFieldFrames ==
  {[json |-> TRUE, type |-> t, menu |-> "TestMenu"] :
     t \in {"start-observing", "stop-observing"}}

NoData == [json |-> FALSE, type |-> "nodata", menu |-> NoMenu]

\* Messages the server sends (IPCTypes.*Message), in one record shape.
OpenMenuMessage ==
  [type |-> "open-menu", target |-> NoTarget, path |-> <<>>, reason |-> NoReason]
CancelMenuMessage ==
  [type |-> "cancel-menu", target |-> NoTarget, path |-> <<>>, reason |-> NoReason]
SelectItemMessage(target, path) ==
  [type |-> "select-item", target |-> target, path |-> path, reason |-> NoReason]
HoverItemMessage(target, path) ==
  [type |-> "hover-item", target |-> target, path |-> path, reason |-> NoReason]
ErrorMessage(reason) ==
  [type |-> "error", target |-> NoTarget, path |-> <<>>, reason |-> reason]

InteractionTypes == {"open-menu", "hover-item", "select-item", "cancel-menu"}

\* IPCErrorReason
eMalformedRequest == "malformed-request"
eAlreadyObserving == "already-observing"
eNotObserving == "not-observing"

\* Events the server emits to the host (IPCServerEvents), one record shape.
ShowMenuEvent(menu) == [event |-> "show-menu", id |-> -1, menu |-> menu]
StartObservingEvent(id) == [event |-> "start-observing", id |-> id, menu |-> NoMenu]
StopObservingEvent(id) == [event |-> "stop-observing", id |-> id, menu |-> NoMenu]

\* ------------------------------------------------------------------ state
VARIABLES
  nextObserverID,  \* IPCServer.nextObserverID
  status,          \* per connection: "none" (not accepted yet), "open", "closed"
  observerID,      \* per connection: the observerID of its handleConnection closure
  handed,          \* callback sets handed to the host: [conn, oneTime]
  announced,       \* history: the persistent IDs announced, in order
  emitted,         \* events emitted to the host by the last step, in order
  sent,            \* ws.send calls made by the last step, in order
  lastOp           \* the last step: which handler ran, on which connection, the
                   \* observerID the connection held before it, and for a
                   \* start-observing message whether it directly follows the
                   \* end of a one-time scope on that connection

\* The reference client of SpecClient.
VARIABLES
  client,                 \* the client object: its class and constructor arguments
  ws,                     \* this.ws: "null" or "socket"
  connectionEstablished,  \* the flag of the init() closure
  initPromise,            \* the promise init() returned
  socket,                 \* the client end of the transport
  closeCalls,             \* history: the number of ws.close() calls
  up,                     \* frames in flight from the client to the server
  down,                   \* frames in flight from the server to the client
  invoked,                \* history: for each frame of down, what produced it
  clientEmitted,          \* events the client emitted in its last step
  clientSent,             \* frames the client passed to ws.send in its last step
  thrown,                 \* the client's last step ended by throwing
  lastCall                \* the last step: a method or handler of the client,
                          \* "server" for a step of the server, "foreign"
                          \* for a frame that is not the server's

\* The life cycle of the server object.
VARIABLES
  wss,             \* this.wss: NoWss (undefined) or a WebSocketServer
  port,            \* this.port
  infoFile,        \* the content of ipc-info.json: <<>> (no file) or <<text>>
  wsServers,       \* the WebSocketServers created so far, one per init()
                   \* call: its state, the port it is bound to, history: its
                   \* close() calls, and the promise the init() call returned
  lastServerCall   \* the last life-cycle step and what it did

serverVars == <<nextObserverID, status, observerID, handed, announced, emitted,
                sent, lastOp>>

clientVars == <<client, ws, connectionEstablished, initPromise, socket,
                closeCalls, up, down, invoked, clientEmitted, clientSent, thrown,
                lastCall>>

lifecycleVars == <<wss, port, infoFile, wsServers, lastServerCall>>

\* The user interface.
VARIABLES
  pointerInput,    \* the PointerInput object: its fields, or NoObject
  lastInput        \* the last call on it: the method, the event's button and
                   \* modifier flag, and the calls it made in order

pointerVars == <<pointerInput, lastInput>>

VARIABLES
  dialog,          \* the SavePresetDialog: its props.isVisible, its React
                   \* state, the names handed to the onSave calls that have
                   \* not settled, or NoObject
  lastDialogCall   \* the last handler of the dialog, the calls it made on its
                   \* props, and whether it ended by throwing

dialogVars == <<dialog, lastDialogCall>>

uiVars == <<pointerVars, dialogVars>>

vars == <<serverVars, clientVars, lifecycleVars, uiVars>>

\* The sentinel of an unregistered connection (ipc-server.ts line 163).
Unregistered == -1

\* The step o was onSelect or onCancel of a one-time callback set, invoked
\* while its connection was observer 0.
EndsScope(o) ==
  o.op \in {"onSelect", "onCancel"} /\ o.oneTime /\ o.held = 0

Op(op, c, oneTime, data) ==
  [op |-> op, conn |-> c, oneTime |-> oneTime, data |-> data,
   held |-> observerID[c],
   afterScope |-> /\ op = "message" /\ data.type = "start-observing"
                  /\ EndsScope(lastOp) /\ lastOp.conn = c]

InitOp == [op |-> "init", conn |-> 0, oneTime |-> FALSE, data |-> NoData,
           held |-> Unregistered, afterScope |-> FALSE]

\* The server after construction.
ServerInit ==
  /\ nextObserverID = 1
  /\ status = [c \in Conns |-> "none"]
  /\ observerID = [c \in Conns |-> Unregistered]
  /\ handed = {}
  /\ announced = <<>>
  /\ emitted = <<>>
  /\ sent = <<>>
  /\ lastOp = InitOp

\* ---------------------------------------------------------------- helpers
\* Variant of wsSend: the message goes out on every connection.
wsSend_broadcast(c, msg) == [d \in Conns |-> [conn |-> d, msg |-> msg]]

\* ws.send(JSON.stringify(msg)) on the socket of connection c.
wsSend(c, msg) == <<[conn |-> c, msg |-> msg]>>

\* JSON.parse(data.toString()) succeeds.
JSONParse(data) == data.json

\* MENU_ITEM_SCHEMA accepts the menu.
ValidMenu(menu) == menu = "TestMenu"

SafeParseShowMenu(data) == data.type = "show-menu" /\ ValidMenu(data.menu)
SafeParseStartObserving(data) == data.type = "start-observing"
SafeParseStopObserving(data) == data.type = "stop-observing"

\* Variant of stopObserving: the IDs of all connections are reset.
stopObserving_shared(c, pre) ==
  /\ emitted' = Append(pre, StopObservingEvent(observerID[c]))
  /\ observerID' = [d \in Conns |-> Unregistered]

\* Variant of stopObserving: the ID is reset before the event is emitted.
stopObserving_resetFirst(c, pre) ==
  /\ observerID' = [observerID EXCEPT ![c] = Unregistered]
  /\ emitted' = Append(pre, StopObservingEvent(observerID'[c]))

\* const stopObserving = () => { emit('stop-observing', observerID); observerID = -1 }
\* pre: the events emitted earlier in the same handler.
stopObserving(c, pre) ==
  /\ emitted' = Append(pre, StopObservingEvent(observerID[c]))
  /\ observerID' = [observerID EXCEPT ![c] = Unregistered]

\* Variant of startObserving: the counter is not advanced.
startObserving_noIncrement(c, oneTime, pre) ==
  LET id == IF oneTime THEN 0 ELSE nextObserverID IN
  /\ observerID' = [observerID EXCEPT ![c] = id]
  /\ nextObserverID' = nextObserverID
  /\ announced' = IF oneTime THEN announced ELSE Append(announced, id)
  /\ emitted' = Append(pre, StartObservingEvent(id))
  /\ handed' = handed \cup {[conn |-> c, oneTime |-> oneTime]}

\* Variant of startObserving: a persistent observer gets the smallest positive
\* ID no connection holds at the moment.
startObserving_reuse(c, oneTime, pre) ==
  LET free == {n \in 1..(NumConns + 1) : \A d \in Conns : observerID[d] # n}
      id == IF oneTime THEN 0 ELSE CHOOSE n \in free : \A m \in free : n <= m
  IN
  /\ observerID' = [observerID EXCEPT ![c] = id]
  /\ nextObserverID' = IF oneTime THEN nextObserverID ELSE nextObserverID + 1
  /\ announced' = IF oneTime THEN announced ELSE Append(announced, id)
  /\ emitted' = Append(pre, StartObservingEvent(id))
  /\ handed' = handed \cup {[conn |-> c, oneTime |-> oneTime]}

\* Variant of startObserving: one-time observers take their ID from the
\* counter too.
startObserving_counter(c, oneTime, pre) ==
  LET id == nextObserverID IN
  /\ observerID' = [observerID EXCEPT ![c] = id]
  /\ nextObserverID' = nextObserverID + 1
  /\ announced' = IF oneTime THEN announced ELSE Append(announced, id)
  /\ emitted' = Append(pre, StartObservingEvent(id))
  /\ handed' = handed \cup {[conn |-> c, oneTime |-> oneTime]}

\* const startObserving = (oneTime) => { ... emit('start-observing', observerID, callbacks) }
startObserving(c, oneTime, pre) ==
  LET id == IF oneTime THEN 0 ELSE nextObserverID IN
  /\ observerID' = [observerID EXCEPT ![c] = id]
  /\ nextObserverID' = IF oneTime THEN nextObserverID ELSE nextObserverID + 1
  /\ announced' = IF oneTime THEN announced ELSE Append(announced, id)
  /\ emitted' = Append(pre, StartObservingEvent(id))
  /\ handed' = handed \cup {[conn |-> c, oneTime |-> oneTime]}

\* ---------------------------------------------------------------- actions
\* wss.on('connection', ws => handleConnection(ws)); connections are numbered
\* in the order the server accepts them.
handleConnection(c) ==
  /\ status[c] = "none"
  /\ \A d \in Conns : d < c => status[d] # "none"
  /\ status' = [status EXCEPT ![c] = "open"]
  /\ observerID' = [observerID EXCEPT ![c] = Unregistered]
  /\ emitted' = <<>>
  /\ sent' = <<>>
  /\ lastOp' = Op("connect", c, FALSE, NoData)
  /\ UNCHANGED <<nextObserverID, handed, announced>>

\* the show-menu branch of the message handler
HandleShowMenu(c, data) ==
  /\ startObserving(c, TRUE, <<ShowMenuEvent(data.menu)>>)
  /\ sent' = <<>>

\* Variant of HandleStartObserving: the already-observing check is missing.
HandleStartObserving_noGuard(c) ==
  /\ nextObserverID <= MaxObserverID
  /\ startObserving(c, FALSE, <<>>)
  /\ sent' = <<>>

\* the start-observing branch of the message handler
HandleStartObserving(c) ==
  IF observerID[c] # Unregistered
  THEN /\ sent' = wsSend(c, ErrorMessage(eAlreadyObserving))
       /\ emitted' = <<>>
       /\ UNCHANGED <<nextObserverID, observerID, handed, announced>>
  ELSE /\ nextObserverID <= MaxObserverID
       /\ startObserving(c, FALSE, <<>>)
       /\ sent' = <<>>

\* Variant of HandleStopObserving: the not-observing check is missing.
HandleStopObserving_noGuard(c) ==
  /\ stopObserving(c, <<>>)
  /\ sent' = <<>>
  /\ UNCHANGED <<nextObserverID, handed, announced>>

\* the stop-observing branch of the message handler
HandleStopObserving(c) ==
  IF observerID[c] = Unregistered
  THEN /\ sent' = wsSend(c, ErrorMessage(eNotObserving))
       /\ emitted' = <<>>
       /\ UNCHANGED <<nextObserverID, observerID, handed, announced>>
  ELSE /\ stopObserving(c, <<>>)
       /\ sent' = <<>>
       /\ UNCHANGED <<nextObserverID, handed, announced>>

\* Variant of HandleMalformed: the offending message is ignored without a reply.
HandleMalformed_silent(c) ==
  /\ sent' = <<>>
  /\ emitted' = <<>>
  /\ UNCHANGED <<nextObserverID, observerID, handed, announced>>

\* the two malformed-request replies of the message handler
HandleMalformed(c) ==
  /\ sent' = wsSend(c, ErrorMessage(eMalformedRequest))
  /\ emitted' = <<>>
  /\ UNCHANGED <<nextObserverID, observerID, handed, announced>>

\* ws.on('message', data => ...)
OnMessage(c, data) ==
  /\ status[c] = "open"
  /\ IF ~JSONParse(data) THEN HandleMalformed(c)
     ELSE IF SafeParseShowMenu(data) THEN HandleShowMenu(c, data)
     ELSE IF SafeParseStartObserving(data) THEN HandleStartObserving(c)
     ELSE IF SafeParseStopObserving(data) THEN HandleStopObserving(c)
     ELSE HandleMalformed(c)
  /\ lastOp' = Op("message", c, FALSE, data)
  /\ UNCHANGED status

\* Variant of OnClose: the host is not told that the observer is gone.
OnClose_silent(c) ==
  /\ status[c] = "open"
  /\ status' = [status EXCEPT ![c] = "closed"]
  /\ emitted' = <<>>
  /\ sent' = <<>>
  /\ lastOp' = Op("close", c, FALSE, NoData)
  /\ UNCHANGED <<nextObserverID, observerID, handed, announced>>

\* ws.on('close', () => { if (observerID !== -1) emit('stop-observing', observerID) })
OnClose(c) ==
  /\ status[c] = "open"
  /\ status' = [status EXCEPT ![c] = "closed"]
  /\ emitted' = IF observerID[c] # Unregistered
                THEN <<StopObservingEvent(observerID[c])>>
                ELSE <<>>
  /\ sent' = <<>>
  /\ lastOp' = Op("close", c, FALSE, NoData)
  /\ UNCHANGED <<nextObserverID, observerID, handed, announced>>

\* callbacks.onOpen of the callback set r
onOpen(r) ==
  /\ r \in handed
  /\ sent' = wsSend(r.conn, OpenMenuMessage)
  /\ emitted' = <<>>
  /\ lastOp' = Op("onOpen", r.conn, r.oneTime, NoData)
  /\ UNCHANGED <<nextObserverID, status, observerID, handed, announced>>

\* Variant of onHover: a hover ends the one-time scope.
onHover_stops(r, target, path) ==
  /\ r \in handed
  /\ sent' = wsSend(r.conn, HoverItemMessage(target, path))
  /\ IF r.oneTime
     THEN stopObserving(r.conn, <<>>)
     ELSE /\ emitted' = <<>>
          /\ UNCHANGED observerID
  /\ lastOp' = Op("onHover", r.conn, r.oneTime, NoData)
  /\ UNCHANGED <<nextObserverID, status, handed, announced>>

\* callbacks.onHover of the callback set r
onHover(r, target, path) ==
  /\ r \in handed
  /\ sent' = wsSend(r.conn, HoverItemMessage(target, path))
  /\ emitted' = <<>>
  /\ lastOp' = Op("onHover", r.conn, r.oneTime, NoData)
  /\ UNCHANGED <<nextObserverID, status, observerID, handed, announced>>

\* callbacks.onSelect of the callback set r
onSelect(r, target, path) ==
  /\ r \in handed
  /\ sent' = wsSend(r.conn, SelectItemMessage(target, path))
  /\ IF r.oneTime
     THEN stopObserving(r.conn, <<>>)
     ELSE /\ emitted' = <<>>
          /\ UNCHANGED observerID
  /\ lastOp' = Op("onSelect", r.conn, r.oneTime, NoData)
  /\ UNCHANGED <<nextObserverID, status, handed, announced>>

\* Variant of onCancel: the one-time scope is not ended.
onCancel_noStop(r) ==
  /\ r \in handed
  /\ sent' = wsSend(r.conn, CancelMenuMessage)
  /\ emitted' = <<>>
  /\ lastOp' = Op("onCancel", r.conn, r.oneTime, NoData)
  /\ UNCHANGED <<nextObserverID, status, observerID, handed, announced>>

\* callbacks.onCancel of the callback set r
onCancel(r) ==
  /\ r \in handed
  /\ sent' = wsSend(r.conn, CancelMenuMessage)
  /\ IF r.oneTime
     THEN stopObserving(r.conn, <<>>)
     ELSE /\ emitted' = <<>>
          /\ UNCHANGED observerID
  /\ lastOp' = Op("onCancel", r.conn, r.oneTime, NoData)
  /\ UNCHANGED <<nextObserverID, status, handed, announced>>

CallbackSets == [conn : Conns, oneTime : BOOLEAN]

\* ------------------------------------------------------ client vocabulary
\* private clientApiVersion = 1
clientApiVersion == 1

\* The API versions a client may be constructed with: the server's, and the
\* 999 of the repository's tests.
ApiVersions == {1, 999}

\* The ports a client may be constructed with: the one of ipc-info.json, on
\* which the server listens, and one on which nothing listens.
ServerPort == "port"
Ports == {ServerPort, "port + 1"}

ClientKinds == {"IPCObserverClient", "IPCShowMenuClient"}

\* The server's connection that belongs to the client's transport.
ClientConn == 1

\* IPCErrorReason, continued
eNotConnected == "not-connected"
eConnectionFailed == "connection-failed"
eVersionNotSupported == "version-not-supported"
IPCErrorReason ==
  {eNotConnected, eConnectionFailed, eMalformedRequest, eVersionNotSupported,
   eAlreadyObserving, eNotObserving}

\* InteractionTarget
InteractionTarget == {"item", "submenu"}

\* The promise returned by init().
NotCalled == [state |-> "not-called", reason |-> NoReason]
Pending == [state |-> "pending", reason |-> NoReason]
Resolved == [state |-> "resolved", reason |-> NoReason]
Rejected(reason) == [state |-> "rejected", reason |-> reason]

\* resolve() and reject() settle a promise once; later calls have no effect.
Settle(promise, outcome) == IF promise = Pending THEN outcome ELSE promise

\* Arguments of client events: a target, a path, an error reason, or nothing.
Undefined == [tag |-> "undefined", s |-> "", p |-> <<>>]
TargetArg(target) == [tag |-> "target", s |-> target, p |-> <<>>]
PathArg(path) == [tag |-> "path", s |-> "", p |-> path]
ReasonArg(reason) == [tag |-> "reason", s |-> reason, p |-> <<>>]

\* this.emit(event, a1, a2)
ClientEvent(event, a1, a2) == [event |-> event, a1 |-> a1, a2 |-> a2]
ErrorEvent(reason) == ClientEvent("error", ReasonArg(reason), Undefined)

\* JSON.stringify of a message of the server: the text of a frame, as the
\* fields a JSON parser finds in it.
JSONStringify(msg) ==
  [json |-> TRUE, type |-> msg.type, target |-> msg.target, path |-> msg.path,
   reason |-> msg.reason]

\* JSON.stringify of a request of the client.
Request(type, menu) == [json |-> TRUE, type |-> type, menu |-> menu]

\* Frames that no handler of the server produces: text that is not JSON, and
\* a JSON object with an unknown type tag.
ForeignFrames ==
  {[json |-> FALSE, type |-> "none", target |-> NoTarget, path |-> <<>>,
    reason |-> NoReason],
   [json |-> TRUE, type |-> "unknown", target |-> NoTarget, path |-> <<>>,
    reason |-> NoReason]}

\* What put a frame on the wire: a callback the host invoked with its
\* arguments, an error reply of the server, or a foreign sender.
Origin(by, target, path) == [by |-> by, target |-> target, path |-> path]

\* --------------------------------------------------------- client helpers
\* zod safeParse of a parsed frame against the message schemas of types.ts
IsPath(path) == path \in Seq(Nat)
SafeParseOpenMenu(msg) == msg.type = "open-menu"
SafeParseCancelMenu(msg) == msg.type = "cancel-menu"
SafeParseSelectItem(msg) ==
  msg.type = "select-item" /\ msg.target \in InteractionTarget /\ IsPath(msg.path)
SafeParseHoverItem(msg) ==
  msg.type = "hover-item" /\ msg.target \in InteractionTarget /\ IsPath(msg.path)
SafeParseError(msg) == msg.type = "error" /\ msg.reason \in IPCErrorReason

\* What a run of handleMessage does: the events it emits, or a throw.
Handled(events) == [thrown |-> FALSE, events |-> events]
Throws == [thrown |-> TRUE, events |-> <<>>]

\* Variant of ObserverHandleMessage: 'select' and 'hover' are emitted with the
\* path as their only argument.
ObserverHandleMessage_pathOnly(data) ==
  IF ~data.json THEN Throws
  ELSE IF SafeParseOpenMenu(data)
    THEN Handled(<<ClientEvent("open", Undefined, Undefined)>>)
  ELSE IF SafeParseCancelMenu(data)
    THEN Handled(<<ClientEvent("cancel", Undefined, Undefined)>>)
  ELSE IF SafeParseSelectItem(data)
    THEN Handled(<<ClientEvent("select", PathArg(data.path), Undefined)>>)
  ELSE IF SafeParseHoverItem(data)
    THEN Handled(<<ClientEvent("hover", PathArg(data.path), Undefined)>>)
  ELSE IF SafeParseError(data)
    THEN Handled(<<ErrorEvent(data.reason)>>)
  ELSE Handled(<<>>)

\* handleMessage of IPCObserverClient.init
ObserverHandleMessage(data) ==
  IF ~data.json THEN Throws
  ELSE IF SafeParseOpenMenu(data)
    THEN Handled(<<ClientEvent("open", Undefined, Undefined)>>)
  ELSE IF SafeParseCancelMenu(data)
    THEN Handled(<<ClientEvent("cancel", Undefined, Undefined)>>)
  ELSE IF SafeParseSelectItem(data)
    THEN Handled(<<ClientEvent("select", TargetArg(data.target), PathArg(data.path))>>)
  ELSE IF SafeParseHoverItem(data)
    THEN Handled(<<ClientEvent("hover", TargetArg(data.target), PathArg(data.path))>>)
  ELSE IF SafeParseError(data)
    THEN Handled(<<ErrorEvent(data.reason)>>)
  ELSE Handled(<<>>)

\* handleMessage of IPCShowMenuClient.init
ShowMenuHandleMessage(data) ==
  IF ~data.json THEN Throws
  ELSE IF SafeParseSelectItem(data)
    THEN Handled(<<ClientEvent("select", PathArg(data.path), Undefined)>>)
  ELSE IF SafeParseCancelMenu(data)
    THEN Handled(<<ClientEvent("cancel", Undefined, Undefined)>>)
  ELSE IF SafeParseHoverItem(data)
    THEN Handled(<<ClientEvent("hover", PathArg(data.path), Undefined)>>)
  ELSE IF SafeParseError(data)
    THEN Handled(<<ErrorEvent(data.reason)>>)
  ELSE Handled(<<>>)

handleMessage(data) ==
  IF client.kind = "IPCObserverClient"
  THEN ObserverHandleMessage(data)
  ELSE ShowMenuHandleMessage(data)

\* A step in which the client does nothing.
ClientIdle(by) ==
  /\ lastCall' = by
  /\ clientEmitted' = <<>>
  /\ clientSent' = <<>>
  /\ thrown' = FALSE

\* A step in which the server does nothing.
ServerIdle ==
  /\ emitted' = <<>>
  /\ sent' = <<>>
  /\ UNCHANGED <<nextObserverID, status, observerID, handed, announced, lastOp>>

\* What the client's last step did.
ClientStep(op, events, frames, threw) ==
  /\ lastCall' = op
  /\ clientEmitted' = events
  /\ clientSent' = frames
  /\ thrown' = threw

\* Variant of Transmit: a frame overtakes the frames already in flight.
Transmit_overtaking(origin) ==
  IF socket = "open"
  THEN /\ down' = [i \in 1..Len(sent') |-> JSONStringify(sent'[i].msg)] \o down
       /\ invoked' = invoked \o [i \in 1..Len(sent') |-> origin]
  ELSE UNCHANGED <<down, invoked>>

\* The server's ws.send calls of this step reach the wire: the frames travel
\* to the client in the order of the calls, unless the client's end of the
\* transport is gone.
Transmit(origin) ==
  IF socket = "open"
  THEN /\ down' = down \o [i \in 1..Len(sent') |-> JSONStringify(sent'[i].msg)]
       /\ invoked' = invoked \o [i \in 1..Len(sent') |-> origin]
  ELSE UNCHANGED <<down, invoked>>

\* this.ws.send(frame): a WebSocket that is still connecting throws, an open
\* one transmits, a closed one discards.
Send(frame) ==
  /\ clientSent' = <<frame>>
  /\ thrown' = (socket = "connecting")
  /\ up' = IF socket = "open" THEN Append(up, frame) ELSE up

\* --------------------------------------------------------- client actions
\* Variant of ClientInit: the transport is created before the versions are
\* compared.
ClientInit_connectFirst ==
  /\ client.kind \in ClientKinds
  /\ initPromise = NotCalled
  /\ ws' = "socket"
  /\ socket' = "connecting"
  /\ connectionEstablished' = FALSE
  /\ initPromise' = IF clientApiVersion # client.serverApiVersion
                    THEN Rejected(eVersionNotSupported)
                    ELSE Pending
  /\ ClientStep("init", <<>>, <<>>, FALSE)
  /\ UNCHANGED <<client, closeCalls, up, down, invoked>>
  /\ ServerIdle

\* IPCObserverClient.init / IPCShowMenuClient.init, up to the return of the
\* promise.  The application calls init() once on a client object.
ClientInit ==
  /\ client.kind \in ClientKinds
  /\ initPromise = NotCalled
  /\ IF clientApiVersion # client.serverApiVersion
     THEN /\ initPromise' = Rejected(eVersionNotSupported)
          /\ UNCHANGED <<ws, socket, connectionEstablished>>
     ELSE /\ ws' = "socket"
          /\ socket' = "connecting"
          /\ connectionEstablished' = FALSE
          /\ initPromise' = Pending
  /\ ClientStep("init", <<>>, <<>>, FALSE)
  /\ UNCHANGED <<client, closeCalls, up, down, invoked>>
  /\ ServerIdle

\* wss.on('connection'): the server accepts the client's transport.
Accept ==
  /\ socket = "connecting"
  /\ client.serverPort = ServerPort
  /\ handleConnection(ClientConn)
  /\ ClientIdle("server")
  /\ UNCHANGED <<client, ws, connectionEstablished, initPromise, socket,
                 closeCalls, up, down, invoked>>

\* Variant of ClientHandleOpen: the promise of init() is left pending.
ClientHandleOpen_noResolve ==
  /\ socket = "connecting"
  /\ status[ClientConn] = "open"
  /\ socket' = "open"
  /\ connectionEstablished' = TRUE
  /\ ClientStep("handleOpen", <<>>, <<>>, FALSE)
  /\ UNCHANGED <<client, ws, initPromise, closeCalls, up, down, invoked>>
  /\ ServerIdle

\* this.ws.onopen = () => handleOpen()
ClientHandleOpen ==
  /\ socket = "connecting"
  /\ status[ClientConn] = "open"
  /\ socket' = "open"
  /\ connectionEstablished' = TRUE
  /\ initPromise' = Settle(initPromise, Resolved)
  /\ ClientStep("handleOpen", <<>>, <<>>, FALSE)
  /\ UNCHANGED <<client, ws, closeCalls, up, down, invoked>>
  /\ ServerIdle

\* Variant of ClientHandleError: every error of the transport drops the
\* transport and rejects.
ClientHandleError_reject ==
  /\ \/ socket = "connecting" /\ client.serverPort # ServerPort
     \/ socket = "aborted"
     \/ socket = "open"
  /\ socket' = "closed"
  /\ ws' = "null"
  /\ initPromise' = Settle(initPromise, Rejected(eConnectionFailed))
  /\ ClientStep("handleError", <<>>, <<>>, FALSE)
  /\ down' = <<>>
  /\ invoked' = <<>>
  /\ UNCHANGED <<client, connectionEstablished, closeCalls, up>>
  /\ ServerIdle

\* Variant of ClientHandleError: every error of the transport is reported as
\* an 'error' event, also before the connection is established.
ClientHandleError_emit ==
  /\ \/ socket = "connecting" /\ client.serverPort # ServerPort
     \/ socket = "aborted"
     \/ socket = "open"
  /\ socket' = "closed"
  /\ ClientStep("handleError", <<ErrorEvent(eMalformedRequest)>>, <<>>, FALSE)
  /\ down' = <<>>
  /\ invoked' = <<>>
  /\ UNCHANGED <<client, ws, initPromise, connectionEstablished, closeCalls, up>>
  /\ ServerIdle

\* this.ws.onerror = () => handleError().  The transport reports an error
\* when nothing listens on the port, when it is closed before it is open, or
\* when an open connection breaks; the transport is closed afterwards.
ClientHandleError ==
  /\ \/ socket = "connecting" /\ client.serverPort # ServerPort
     \/ socket = "aborted"
     \/ socket = "open"
  /\ socket' = "closed"
  /\ IF ~connectionEstablished
     THEN /\ ws' = "null"
          /\ initPromise' = Settle(initPromise, Rejected(eConnectionFailed))
          /\ ClientStep("handleError", <<>>, <<>>, FALSE)
     ELSE /\ ClientStep("handleError", <<ErrorEvent(eMalformedRequest)>>,
                        <<>>, FALSE)
          /\ UNCHANGED <<ws, initPromise>>
  /\ down' = <<>>
  /\ invoked' = <<>>
  /\ UNCHANGED <<client, connectionEstablished, closeCalls, up>>
  /\ ServerIdle

\* this.ws.onmessage = (event) => handleMessage(event.data): the transport
\* hands over the frames in the order they were sent.
ClientOnMessage ==
  /\ socket = "open"
  /\ down # <<>>
  /\ LET done == handleMessage(Head(down)) IN
       ClientStep("handleMessage", done.events, <<>>, done.thrown)
  /\ down' = Tail(down)
  /\ invoked' = Tail(invoked)
  /\ UNCHANGED <<client, ws, connectionEstablished, initPromise, socket,
                 closeCalls, up>>
  /\ ServerIdle

\* Variant of Call: a request made without a transport is kept and goes out
\* with the next frame in flight.
Call_queued(op, frame) ==
  /\ Len(up) < MaxInFlight
  /\ IF ws = "null"
     THEN /\ clientEmitted' = <<ErrorEvent(eNotConnected)>>
          /\ clientSent' = <<>>
          /\ thrown' = FALSE
          /\ up' = Append(up, frame)
     ELSE /\ clientEmitted' = <<>>
          /\ Send(frame)
  /\ lastCall' = op
  /\ UNCHANGED <<client, ws, connectionEstablished, initPromise, socket,
                 closeCalls, down, invoked>>
  /\ ServerIdle

\* a request method of a client: the not-connected guard, then ws.send
Call(op, frame) ==
  /\ Len(up) < MaxInFlight
  /\ IF ws = "null"
     THEN /\ clientEmitted' = <<ErrorEvent(eNotConnected)>>
          /\ clientSent' = <<>>
          /\ thrown' = FALSE
          /\ UNCHANGED up
     ELSE /\ clientEmitted' = <<>>
          /\ Send(frame)
  /\ lastCall' = op
  /\ UNCHANGED <<client, ws, connectionEstablished, initPromise, socket,
                 closeCalls, down, invoked>>
  /\ ServerIdle

\* IPCShowMenuClient.showMenu(menu)
ClientShowMenu(menu) ==
  /\ client.kind = "IPCShowMenuClient"
  /\ Call("showMenu", Request("show-menu", menu))

\* IPCObserverClient.startObserving()
ClientStartObserving ==
  /\ client.kind = "IPCObserverClient"
  /\ Call("startObserving", Request("start-observing", NoMenu))

\* IPCObserverClient.stopObserving()
ClientStopObserving ==
  /\ client.kind = "IPCObserverClient"
  /\ Call("stopObserving", Request("stop-observing", NoMenu))

\* Variant of ClientClose: the reference to the transport is kept.
ClientClose_keepRef ==
  /\ client.kind \in ClientKinds
  /\ IF ws # "null"
     THEN /\ closeCalls' = closeCalls + 1
          /\ socket' = IF socket = "connecting" THEN "aborted" ELSE "closed"
          /\ down' = <<>>
          /\ invoked' = <<>>
          /\ UNCHANGED ws
     ELSE UNCHANGED <<closeCalls, socket, ws, down, invoked>>
  /\ ClientStep("close", <<>>, <<>>, FALSE)
  /\ UNCHANGED <<client, connectionEstablished, initPromise, up>>
  /\ ServerIdle

\* IPCObserverClient.close / IPCShowMenuClient.close.  Frames that have not
\* been handed over when the transport is closed are not handed over.
ClientClose ==
  /\ client.kind \in ClientKinds
  /\ IF ws # "null"
     THEN /\ closeCalls' = closeCalls + 1
          /\ socket' = IF socket = "connecting" THEN "aborted" ELSE "closed"
          /\ ws' = "null"
          /\ down' = <<>>
          /\ invoked' = <<>>
     ELSE UNCHANGED <<closeCalls, socket, ws, down, invoked>>
  /\ ClientStep("close", <<>>, <<>>, FALSE)
  /\ UNCHANGED <<client, connectionEstablished, initPromise, up>>
  /\ ServerIdle

\* ------------------------------------- the server's end of the client's wire

\* ws.on('message') on the client's connection: the oldest frame in flight
ServerOnMessage ==
  /\ up # <<>>
  /\ Len(down) < MaxInFlight
  /\ OnMessage(ClientConn, Head(up))
  /\ up' = Tail(up)
  /\ Transmit(Origin("reply", NoTarget, <<>>))
  /\ ClientIdle("server")
  /\ UNCHANGED <<client, ws, connectionEstablished, initPromise, socket,
                 closeCalls>>

\* ws.on('close') on the client's connection, after the client's end is gone
\* and every frame it sent has arrived
ServerOnClose ==
  /\ socket \in {"aborted", "closed"}
  /\ up = <<>>
  /\ OnClose(ClientConn)
  /\ ClientIdle("server")
  /\ UNCHANGED <<client, ws, connectionEstablished, initPromise, socket,
                 closeCalls, up, down, invoked>>

\* the host invokes a callback of a callback set of the client's connection
HostOnOpen(r) ==
  /\ r.conn = ClientConn
  /\ Len(down) < MaxInFlight
  /\ onOpen(r)
  /\ Transmit(Origin("onOpen", NoTarget, <<>>))
  /\ ClientIdle("server")
  /\ UNCHANGED <<client, ws, connectionEstablished, initPromise, socket,
                 closeCalls, up>>

HostOnHover(r, target, path) ==
  /\ r.conn = ClientConn
  /\ Len(down) < MaxInFlight
  /\ onHover(r, target, path)
  /\ Transmit(Origin("onHover", target, path))
  /\ ClientIdle("server")
  /\ UNCHANGED <<client, ws, connectionEstablished, initPromise, socket,
                 closeCalls, up>>

HostOnSelect(r, target, path) ==
  /\ r.conn = ClientConn
  /\ Len(down) < MaxInFlight
  /\ onSelect(r, target, path)
  /\ Transmit(Origin("onSelect", target, path))
  /\ ClientIdle("server")
  /\ UNCHANGED <<client, ws, connectionEstablished, initPromise, socket,
                 closeCalls, up>>

HostOnCancel(r) ==
  /\ r.conn = ClientConn
  /\ Len(down) < MaxInFlight
  /\ onCancel(r)
  /\ Transmit(Origin("onCancel", NoTarget, <<>>))
  /\ ClientIdle("server")
  /\ UNCHANGED <<client, ws, connectionEstablished, initPromise, socket,
                 closeCalls, up>>

\* The peer writes a frame that is no message of the protocol.
ForeignSend(frame) ==
  /\ socket = "open"
  /\ Len(down) < MaxInFlight
  /\ down' = Append(down, frame)
  /\ invoked' = Append(invoked, Origin("foreign", NoTarget, <<>>))
  /\ ClientIdle("foreign")
  /\ UNCHANGED <<client, ws, connectionEstablished, initPromise, socket,
                 closeCalls, up>>
  /\ ServerIdle

\* --------------------------------------------- life cycle of the server
\* IPCServer.cAPIVersion
cAPIVersion == 1

\* this.wss is undefined.
NoWss == 0
\* this.port is undefined.
NoPort == "undefined"

Inits == 1..MaxInits

\* JSON.stringify(info, null, 2) of the discovery record.
StringifyInfo(info) == [json |-> TRUE, port |-> info.port, apiVersion |-> info.apiVersion]

\* A record a previous run of the server left behind.
StaleInfo == StringifyInfo([port |-> "port of a previous run", apiVersion |-> cAPIVersion])

ServerCall(op, k, threw, wrote) == [op |-> op, k |-> k, threw |-> threw, wrote |-> wrote]

\* The server object after construction; the info directory may hold the
\* record of a previous run.
ServerConstructed ==
  /\ wss = NoWss
  /\ port = NoPort
  /\ infoFile \in {<<>>, <<StaleInfo>>}
  /\ wsServers = <<>>
  /\ lastServerCall = ServerCall("constructor", 0, FALSE, FALSE)

\* The ports other WebSocketServers of this process are bound to.
PortsInUse ==
  {wsServers[j].port : j \in {i \in DOMAIN wsServers : wsServers[i].state = "listening"}}

\* IPCServer.init(): creates the WebSocketServer, which starts binding, and
\* registers the handlers; the promise is settled by the handlers.
init ==
  /\ Len(wsServers) < MaxInits
  /\ wss' = Len(wsServers) + 1
  /\ wsServers' = Append(wsServers, [state |-> "binding", port |-> NoPort,
                                      closes |-> 0, promise |-> Pending])
  /\ lastServerCall' = ServerCall("init", Len(wsServers) + 1, FALSE, FALSE)
  /\ UNCHANGED <<port, infoFile>>

\* Variant of the 'listening' handler: a file that exists is not written.
OnListening_noOverwrite(k) ==
  /\ k \in DOMAIN wsServers
  /\ wsServers[k].state = "binding"
  /\ \E p \in Ports \ PortsInUse :
       LET bound == [wsServers EXCEPT ![k].state = "listening", ![k].port = p] IN
       IF wss = NoWss \/ bound[wss].state # "listening"
       THEN /\ wsServers' = bound
            /\ lastServerCall' = ServerCall("listening", k, TRUE, FALSE)
            /\ UNCHANGED <<wss, port, infoFile>>
       ELSE /\ port' = bound[wss].port
            /\ \E ok \in BOOLEAN :
                 /\ infoFile' = IF ok /\ infoFile = <<>>
                                THEN <<StringifyInfo([port |-> bound[wss].port,
                                                      apiVersion |-> cAPIVersion])>>
                                ELSE infoFile
                 /\ lastServerCall' = ServerCall("listening", k, FALSE, ok)
            /\ wsServers' = [bound EXCEPT ![k].promise = Settle(@, Resolved)]
            /\ UNCHANGED wss

\* The 'listening' handler of the init() call k: the operating system has
\* bound the socket to a free port.  this.wss.address() throws if this.wss is
\* undefined, and returns null (so that address.port throws) if this.wss is
\* not listening; then nothing else happens.  Otherwise the handler sets
\* this.port, writes the file inside try/catch (the write succeeds or
\* fails), and resolves.
OnListening(k) ==
  /\ k \in DOMAIN wsServers
  /\ wsServers[k].state = "binding"
  /\ \E p \in Ports \ PortsInUse :
       LET bound == [wsServers EXCEPT ![k].state = "listening", ![k].port = p] IN
       IF wss = NoWss \/ bound[wss].state # "listening"
       THEN /\ wsServers' = bound
            /\ lastServerCall' = ServerCall("listening", k, TRUE, FALSE)
            /\ UNCHANGED <<wss, port, infoFile>>
       ELSE /\ port' = bound[wss].port
            /\ \E ok \in BOOLEAN :
                 /\ infoFile' = IF ok
                                THEN <<StringifyInfo([port |-> bound[wss].port,
                                                      apiVersion |-> cAPIVersion])>>
                                ELSE infoFile
                 /\ lastServerCall' = ServerCall("listening", k, FALSE, ok)
            /\ wsServers' = [bound EXCEPT ![k].promise = Settle(@, Resolved)]
            /\ UNCHANGED wss

\* Variant of the 'error' handler: the bind is tried again.
OnError_retry(k) ==
  /\ k \in DOMAIN wsServers
  /\ wsServers[k].state = "binding"
  /\ wsServers' = [wsServers EXCEPT ![k].state = "binding"]
  /\ lastServerCall' = ServerCall("error", k, FALSE, FALSE)
  /\ UNCHANGED <<wss, port, infoFile>>

\* The 'error' handler of the init() call k: the socket could not be bound.
OnError(k) ==
  /\ k \in DOMAIN wsServers
  /\ wsServers[k].state = "binding"
  /\ wsServers' = [wsServers EXCEPT ![k].state = "failed",
                                    ![k].promise = Settle(@, Rejected("bind"))]
  /\ lastServerCall' = ServerCall("error", k, FALSE, FALSE)
  /\ UNCHANGED <<wss, port, infoFile>>

\* Variant of close(): the handle is kept.
close_keepHandle ==
  /\ IF wss # NoWss
     THEN wsServers' = [wsServers EXCEPT ![wss].state = "closed",
                                         ![wss].closes = @ + 1]
     ELSE UNCHANGED wsServers
  /\ lastServerCall' = ServerCall("close", wss, FALSE, FALSE)
  /\ UNCHANGED <<wss, port, infoFile>>

\* IPCServer.close().  A WebSocketServer that is closed no longer delivers
\* its 'listening' or 'error' event.
close ==
  /\ IF wss # NoWss
     THEN /\ wsServers' = [wsServers EXCEPT ![wss].state = "closed",
                                            ![wss].closes = @ + 1]
          /\ wss' = NoWss
     ELSE UNCHANGED <<wss, wsServers>>
  /\ lastServerCall' = ServerCall("close", wss, FALSE, FALSE)
  /\ UNCHANGED <<port, infoFile>>

\* The server after its first init() resolved: listening on ServerPort, the
\* discovery record written.
Listening ==
  /\ wss = 1
  /\ port = ServerPort
  /\ infoFile = <<StringifyInfo([port |-> ServerPort, apiVersion |-> cAPIVersion])>>
  /\ wsServers = <<[state |-> "listening", port |-> ServerPort,
                     closes |-> 0, promise |-> Resolved]>>
  /\ lastServerCall = ServerCall("listening", 1, FALSE, TRUE)

\* ----------------------------------------------------------- PointerInput
\* An object that is not constructed, and its last call.
NoObject == "none"
NoCall == "none"

\* PointerInput.dragThreshold
dragThreshold == 15

\* ButtonState
eReleased == "released"
eClicked == "clicked"
eDragged == "dragged"

\* Positions of the pointer (IVec2).  <<9, 12>> lies exactly dragThreshold
\* away from <<0, 0>>, <<30, 0>> lies farther from both.
Points == {<<0, 0>>, <<9, 12>>, <<30, 0>>}

\* clickPosition = null
null == <<>>

\* MouseEvent.button: the main button, the right button, the back button.
Buttons == {0, 2, 3}

\* setCurrentCenter is called with this center and this radius.
Centers == {<<30, 0>>}
Radii == {20}

\* math.getDistance(a, b) < d and > d, on integers.
DistanceSq(a, b) ==
  (a[1] - b[1]) * (a[1] - b[1]) + (a[2] - b[2]) * (a[2] - b[2])
DistanceLess(a, b, d) == DistanceSq(a, b) < d * d
DistanceGreater(a, b, d) == DistanceSq(a, b) > d * d

Input(op, button, modifier, calls) ==
  [op |-> op, button |-> button, modifier |-> modifier, calls |-> calls]

\* The fields of a PointerInput after construction; the two modes are public
\* fields the embedding code sets before use.
PointerConstructed ==
  /\ \E marking \in BOOLEAN, turbo \in BOOLEAN :
       pointerInput = [enableMarkingMode |-> marking,
                       enableTurboMode |-> turbo,
                       pointerPosition |-> <<0, 0>>,
                       buttonState |-> eReleased,
                       deferredTurboMode |-> FALSE,
                       clickPosition |-> <<0, 0>>,
                       keydownPosition |-> <<0, 0>>,
                       centerPosition |-> <<0, 0>>,
                       centerRadius |-> 0,
                       anyKeyPressed |-> FALSE,
                       ignoreMotionEvents |-> 0]
  /\ lastInput = Input("constructor", 0, FALSE, <<>>)

NoPointer == pointerInput = NoObject /\ lastInput = NoCall

\* PointerInput.update(pointer, center, button), applied to the object o:
\* the object afterwards.
update(o, pointer, center, button) ==
  IF o.centerPosition # center \/ o.buttonState # button
       \/ o.pointerPosition # pointer
  THEN [o EXCEPT !.centerPosition = center, !.buttonState = button,
                 !.pointerPosition = pointer]
  ELSE o

\* The stateCallback call of update, if it makes one.
updateCalls(o, pointer, center, button) ==
  IF update(o, pointer, center, button) # o THEN <<"stateCallback">> ELSE <<>>

\* setCurrentCenter(center, radius)
setCurrentCenter(center, radius) ==
  /\ pointerInput' =
       [update(pointerInput, center, center, pointerInput.buttonState)
          EXCEPT !.keydownPosition = center, !.centerRadius = radius]
  /\ lastInput' = Input("setCurrentCenter", 0, FALSE,
                        updateCalls(pointerInput, center, center,
                                    pointerInput.buttonState)
                          \o <<"gestureDetector.reset">>)

\* Variant of ignoreNextMotionEvents: one event is ignored.
ignoreNextMotionEvents_one ==
  /\ pointerInput' = [pointerInput EXCEPT !.ignoreMotionEvents = 1]
  /\ lastInput' = Input("ignoreNextMotionEvents", 0, FALSE, <<>>)

\* ignoreNextMotionEvents()
ignoreNextMotionEvents ==
  /\ pointerInput' = [pointerInput EXCEPT !.ignoreMotionEvents = 2]
  /\ lastInput' = Input("ignoreNextMotionEvents", 0, FALSE, <<>>)

\* deferTurboMode()
deferTurboMode ==
  /\ pointerInput' = [pointerInput EXCEPT !.deferredTurboMode = TRUE]
  /\ lastInput' = Input("deferTurboMode", 0, FALSE, <<>>)

\* The click-zone test of onMotionEvent.
inClickZone ==
  /\ pointerInput.clickPosition # null
  /\ DistanceLess(pointerInput.pointerPosition, pointerInput.clickPosition,
                  dragThreshold)

\* The turbo-mode test of onMotionEvent for an event with the modifier flag.
shouldEnterTurboMode(modifier) ==
  /\ pointerInput.enableTurboMode
  /\ ~pointerInput.deferredTurboMode
  /\ pointerInput.buttonState # eDragged
  /\ pointerInput.anyKeyPressed \/ modifier
  /\ DistanceGreater(pointerInput.pointerPosition, pointerInput.keydownPosition,
                     dragThreshold)

\* Variant of newButtonState: a press that leaves the click zone is dragged
\* whether or not marking mode is enabled.
newButtonState_alwaysDrag(modifier) ==
  IF shouldEnterTurboMode(modifier) THEN eDragged
  ELSE IF pointerInput.buttonState = eClicked /\ ~inClickZone
       THEN eDragged
       ELSE pointerInput.buttonState

\* The button state onMotionEvent passes to update.
newButtonState(modifier) ==
  IF shouldEnterTurboMode(modifier) THEN eDragged
  ELSE IF pointerInput.buttonState = eClicked /\ ~inClickZone
       THEN (IF pointerInput.enableMarkingMode THEN eDragged ELSE eReleased)
       ELSE pointerInput.buttonState

\* onMotionEvent(event) for a mouse event at position p; modifier: one of
\* ctrlKey, metaKey, shiftKey, altKey is set.
onMotionEvent(p, modifier) ==
  IF pointerInput.ignoreMotionEvents > 0
  THEN /\ pointerInput' = [pointerInput EXCEPT !.ignoreMotionEvents = @ - 1]
       /\ lastInput' = Input("onMotionEvent", 0, modifier, <<>>)
  ELSE LET new == newButtonState(modifier) IN
       /\ pointerInput' = update(pointerInput, p, pointerInput.centerPosition, new)
       /\ lastInput' = Input("onMotionEvent", 0, modifier,
                             updateCalls(pointerInput, p,
                                         pointerInput.centerPosition, new)
                               \o (IF new = eDragged
                                   THEN <<"gestureDetector.onMotionEvent">>
                                   ELSE <<>>))

\* onPointerDownEvent(event) for a mouse event at position p.
onPointerDownEvent(p, button) ==
  IF button = 2
  THEN /\ lastInput' = Input("onPointerDownEvent", button, FALSE, <<>>)
       /\ UNCHANGED pointerInput
  ELSE LET clicked == [pointerInput EXCEPT !.clickPosition = p] IN
       /\ pointerInput' = update(clicked, p, pointerInput.centerPosition, eClicked)
       /\ lastInput' = Input("onPointerDownEvent", button, FALSE,
                             updateCalls(clicked, p, pointerInput.centerPosition,
                                         eClicked)
                               \o <<"gestureDetector.reset">>)

\* The selection test shared by onPointerUpEvent and onKeyUpEvent: the
\* pointer is dragged outside the center item.
markingModeSelection ==
  /\ pointerInput.buttonState = eDragged
  /\ DistanceGreater(pointerInput.pointerPosition, pointerInput.centerPosition,
                     pointerInput.centerRadius)

\* onPointerUpEvent(event) for a mouse event at position p.
onPointerUpEvent(p, button) ==
  IF button = 3
  THEN /\ lastInput' = Input("onPointerUpEvent", button, FALSE,
                             <<"gestureDetector.reset", "selectCallback eParent">>)
       /\ UNCHANGED pointerInput
  ELSE IF button = 2
  THEN /\ lastInput' = Input("onPointerUpEvent", button, FALSE,
                             <<"gestureDetector.reset", "closeCallback">>)
       /\ UNCHANGED pointerInput
  ELSE LET cleared == [pointerInput EXCEPT !.clickPosition = null] IN
       /\ pointerInput' = update(cleared, p, pointerInput.centerPosition, eReleased)
       /\ lastInput' = Input("onPointerUpEvent", button, FALSE,
                             <<"gestureDetector.reset">>
                               \o (IF pointerInput.buttonState = eClicked
                                        \/ markingModeSelection
                                   THEN <<"selectCallback eActiveItem">>
                                   ELSE <<>>)
                               \o updateCalls(cleared, p,
                                              pointerInput.centerPosition,
                                              eReleased))

\* Variant of onKeyDownEvent: the deferral is not looked at.
onKeyDownEvent_arms ==
  /\ pointerInput' = [pointerInput EXCEPT !.anyKeyPressed = TRUE,
                                          !.keydownPosition = pointerInput.pointerPosition]
  /\ lastInput' = Input("onKeyDownEvent", 0, FALSE, <<>>)

\* onKeyDownEvent()
onKeyDownEvent ==
  /\ pointerInput' =
       IF ~pointerInput.deferredTurboMode
       THEN [pointerInput EXCEPT !.anyKeyPressed = TRUE,
                                 !.keydownPosition = pointerInput.pointerPosition]
       ELSE pointerInput
  /\ lastInput' = Input("onKeyDownEvent", 0, FALSE, <<>>)

\* onKeyUpEvent(event); modifier: a modifier key is still held.
onKeyUpEvent(modifier) ==
  IF modifier
  THEN /\ lastInput' = Input("onKeyUpEvent", 0, modifier, <<>>)
       /\ UNCHANGED pointerInput
  ELSE LET released == [pointerInput EXCEPT !.anyKeyPressed = FALSE,
                                            !.deferredTurboMode = FALSE] IN
       /\ pointerInput' = update(released, pointerInput.pointerPosition,
                                 pointerInput.centerPosition, eReleased)
       /\ lastInput' = Input("onKeyUpEvent", 0, modifier,
                             (IF markingModeSelection
                              THEN <<"gestureDetector.reset",
                                     "selectCallback eActiveItem">>
                              ELSE <<>>)
                               \o updateCalls(released, pointerInput.pointerPosition,
                                              pointerInput.centerPosition,
                                              eReleased))

\* ------------------------------------------------------- SavePresetDialog
\* Names the user types, as sequences of characters: empty, blank, valid,
\* valid with blanks around it, equal to an existing preset up to case, and
\* with a character the pattern does not allow.
Names == {<<>>, <<" ">>, <<"b">>, <<" ", "b", " ">>, <<"A">>, <<"a", "!">>}

\* props.existingPresetNames
existingPresetNames == {<<"a">>}

\* What a rejected or throwing onSave hands to the catch clause: an Error
\* with a message, an Error without one, or undefined.
Reasons == {[defined |-> TRUE, message |-> "disk full"],
            [defined |-> TRUE, message |-> ""],
            [defined |-> FALSE, message |-> ""]}

\* name.trim()
RECURSIVE trim(_)
trim(name) ==
  IF name = <<>> THEN name
  ELSE IF Head(name) = " " THEN trim(Tail(name))
  ELSE IF name[Len(name)] = " " THEN trim(SubSeq(name, 1, Len(name) - 1))
  ELSE name

\* /^[a-zA-Z0-9_\-\s]+$/.test(name)
PatternTest(name) ==
  /\ name # <<>>
  /\ \A i \in 1..Len(name) : name[i] \in {"a", "b", "A", "B", "0", "_", "-", " "}

\* name.toLowerCase()
toLowerCase(name) ==
  [i \in 1..Len(name) |-> IF name[i] = "A" THEN "a"
                          ELSE IF name[i] = "B" THEN "b" ELSE name[i]]

\* error: string | null
NoMessage == "null"

\* validatePresetName(name)
validatePresetName(name) ==
  LET trimmed == trim(name) IN
  IF trimmed = <<>>
  THEN [error |-> "preset-name-empty", warning |-> NoMessage]
  ELSE IF ~PatternTest(trimmed)
  THEN [error |-> "preset-name-invalid", warning |-> NoMessage]
  ELSE IF \E existingName \in existingPresetNames :
            toLowerCase(existingName) = toLowerCase(trimmed)
  THEN [error |-> NoMessage, warning |-> "preset-name-exists"]
  ELSE [error |-> NoMessage, warning |-> NoMessage]

\* The onSave calls that have not settled are at most MaxSaves.
MaxSaves == 2

DialogCall(op, calls, threw) == [op |-> op, calls |-> calls, threw |-> threw]

\* The component mounted and hidden.
DialogMounted ==
  /\ dialog = [isVisible |-> FALSE, presetName |-> <<>>, error |-> NoMessage,
               warning |-> NoMessage, isSaving |-> FALSE, saving |-> <<>>]
  /\ lastDialogCall = DialogCall("mount", <<>>, FALSE)

NoDialog == dialog = NoObject /\ lastDialogCall = NoCall

\* The parent shows the dialog; the effect on props.isVisible clears the
\* state.
Show ==
  /\ ~dialog.isVisible
  /\ dialog' = [dialog EXCEPT !.isVisible = TRUE, !.presetName = <<>>,
                              !.error = NoMessage, !.warning = NoMessage,
                              !.isSaving = FALSE]
  /\ lastDialogCall' = DialogCall("show", <<>>, FALSE)

\* The parent hides the dialog.
Hide ==
  /\ dialog.isVisible
  /\ dialog' = [dialog EXCEPT !.isVisible = FALSE]
  /\ lastDialogCall' = DialogCall("hide", <<>>, FALSE)

\* handleInputChange(e); the input is disabled while saving.
handleInputChange(name) ==
  /\ dialog.isVisible
  /\ ~dialog.isSaving
  /\ dialog' = [dialog EXCEPT !.presetName = name,
                              !.error = validatePresetName(name).error,
                              !.warning = validatePresetName(name).warning]
  /\ lastDialogCall' = DialogCall("handleInputChange", <<>>, FALSE)

\* The Cancel button and the Escape key (both disabled while saving) and
\* the close control of the modal (never disabled) call props.onClose.
Cancel ==
  /\ dialog.isVisible
  /\ lastDialogCall' = DialogCall("cancel", <<"onClose">>, FALSE)
  /\ UNCHANGED dialog

\* The catch and finally clauses of handleSave, applied to the state d:
\* reading e.message throws when e is undefined.
Caught(d, e) ==
  IF e.defined
  THEN [d EXCEPT !.error = IF e.message # "" THEN e.message
                           ELSE "Failed to save preset",
                 !.isSaving = FALSE]
  ELSE [d EXCEPT !.isSaving = FALSE]

\* handleSave() up to its await, called by the Save button or the Enter key,
\* both of which need a name that is not blank, no error, and no save in
\* progress.  onSave returns (a promise or nothing) or throws.
handleSave ==
  /\ dialog.isVisible
  /\ trim(dialog.presetName) # <<>>
  /\ dialog.error = NoMessage
  /\ ~dialog.isSaving
  /\ Len(dialog.saving) < MaxSaves
  /\ IF validatePresetName(dialog.presetName).error # NoMessage
     THEN /\ dialog' = [dialog EXCEPT
                          !.error = validatePresetName(dialog.presetName).error]
          /\ lastDialogCall' = DialogCall("handleSave", <<>>, FALSE)
     ELSE \/ /\ dialog' = [dialog EXCEPT !.isSaving = TRUE,
                                         !.saving = Append(dialog.saving,
                                                            dialog.presetName)]
             /\ lastDialogCall' = DialogCall("handleSave", <<"onSave">>, FALSE)
          \/ \E e \in Reasons :
               /\ dialog' = Caught(dialog, e)
               /\ lastDialogCall' = DialogCall("handleSave", <<"onSave">>,
                                               ~e.defined)

\* The calls of onSave without the i-th.
Settled(saving, i) ==
  [j \in 1..(Len(saving) - 1) |-> IF j < i THEN saving[j] ELSE saving[j + 1]]

\* handleSave() after its await: the promise of the i-th pending onSave
\* resolved, or it rejected with a reason.
SaveSettled(i) ==
  /\ i \in DOMAIN dialog.saving
  /\ \/ /\ dialog' = [dialog EXCEPT !.presetName = <<>>, !.error = NoMessage,
                                    !.warning = NoMessage, !.isSaving = FALSE,
                                    !.saving = Settled(dialog.saving, i)]
        /\ lastDialogCall' = DialogCall("resolved", <<"onClose">>, FALSE)
     \/ \E e \in Reasons :
          /\ dialog' = [Caught(dialog, e) EXCEPT
                          !.saving = Settled(dialog.saving, i)]
          /\ lastDialogCall' = DialogCall("rejected", <<>>, ~e.defined)

\* ------------------------------------------------------- specifications
\* No user interface object exists.
NoUI == NoPointer /\ NoDialog

\* No reference client: the peers of the server are arbitrary.
NoClient == [kind |-> "none", serverPort |-> ServerPort, serverApiVersion |-> 1]

ClientConstructed(c) ==
  /\ client = c
  /\ ws = "null"
  /\ connectionEstablished = FALSE
  /\ initPromise = NotCalled
  /\ socket = "none"
  /\ closeCalls = 0
  /\ up = <<>>
  /\ down = <<>>
  /\ invoked = <<>>
  /\ clientEmitted = <<>>
  /\ clientSent = <<>>
  /\ thrown = FALSE
  /\ lastCall = "constructor"

Init == ServerInit /\ Listening /\ ClientConstructed(NoClient) /\ NoUI

Next ==
  \/ \E c \in Conns : handleConnection(c) /\ UNCHANGED <<clientVars, lifecycleVars, uiVars>>
  \/ \E c \in Conns, data \in Inbound : OnMessage(c, data) /\ UNCHANGED <<clientVars, lifecycleVars, uiVars>>
  \/ \E c \in Conns : OnClose(c) /\ UNCHANGED <<clientVars, lifecycleVars, uiVars>>
  \/ \E r \in CallbackSets : onOpen(r) /\ UNCHANGED <<clientVars, lifecycleVars, uiVars>>
  \/ \E r \in CallbackSets, i \in HoverInputs :
       onHover(r, i.target, i.path) /\ UNCHANGED <<clientVars, lifecycleVars, uiVars>>
  \/ \E r \in CallbackSets, i \in SelectInputs :
       onSelect(r, i.target, i.path) /\ UNCHANGED <<clientVars, lifecycleVars, uiVars>>
  \/ \E r \in CallbackSets : onCancel(r) /\ UNCHANGED <<clientVars, lifecycleVars, uiVars>>

Spec == Init /\ [][Next]_vars

\* The server alone, with peers that also send requests with an extra key.
NextFields ==
  \/ Next
  \/ \E c \in Conns, data \in ExtraFieldFrames :
       OnMessage(c, data) /\ UNCHANGED <<clientVars, lifecycleVars, uiVars>>

SpecFields == Init /\ [][NextFields]_vars

\* A client constructed with a port and an API version, and a server whose
\* init() has resolved.
InitClient ==
  /\ ServerInit
  /\ Listening
  /\ NoUI
  /\ \E c \in [kind : ClientKinds, serverPort : Ports,
               serverApiVersion : ApiVersions] : ClientConstructed(c)

NextClient ==
  \/ ClientInit /\ UNCHANGED <<lifecycleVars, uiVars>>
  \/ Accept /\ UNCHANGED <<lifecycleVars, uiVars>>
  \/ ClientHandleOpen /\ UNCHANGED <<lifecycleVars, uiVars>>
  \/ ClientHandleError /\ UNCHANGED <<lifecycleVars, uiVars>>
  \/ ClientOnMessage /\ UNCHANGED <<lifecycleVars, uiVars>>
  \/ \E m \in Menus :
       ClientShowMenu(m) /\ UNCHANGED <<lifecycleVars, uiVars>>
  \/ ClientStartObserving /\ UNCHANGED <<lifecycleVars, uiVars>>
  \/ ClientStopObserving /\ UNCHANGED <<lifecycleVars, uiVars>>
  \/ ClientClose /\ UNCHANGED <<lifecycleVars, uiVars>>
  \/ ServerOnMessage /\ UNCHANGED <<lifecycleVars, uiVars>>
  \/ ServerOnClose /\ UNCHANGED <<lifecycleVars, uiVars>>
  \/ \E r \in CallbackSets :
       HostOnOpen(r) /\ UNCHANGED <<lifecycleVars, uiVars>>
  \/ \E r \in CallbackSets, i \in HoverInputs :
       HostOnHover(r, i.target, i.path) /\ UNCHANGED <<lifecycleVars, uiVars>>
  \/ \E r \in CallbackSets, i \in SelectInputs :
       HostOnSelect(r, i.target, i.path) /\ UNCHANGED <<lifecycleVars, uiVars>>
  \/ \E r \in CallbackSets :
       HostOnCancel(r) /\ UNCHANGED <<lifecycleVars, uiVars>>
  \/ \E f \in ForeignFrames :
       ForeignSend(f) /\ UNCHANGED <<lifecycleVars, uiVars>>

SpecClient == InitClient /\ [][NextClient]_vars

\* The server's event loop accepts a connection that is offered to it, and
\* the transport delivers the open notification of an accepted connection.
SpecClientFair ==
  /\ InitClient
  /\ [][NextClient]_vars
  /\ WF_vars(Accept /\ UNCHANGED <<lifecycleVars, uiVars>>)
  /\ WF_vars(ClientHandleOpen /\ UNCHANGED <<lifecycleVars, uiVars>>)

\* The server object alone: no connection is made.
InitServer ==
  ServerInit /\ ServerConstructed /\ ClientConstructed(NoClient) /\ NoUI

NextServer ==
  \/ init /\ UNCHANGED <<serverVars, clientVars, uiVars>>
  \/ \E k \in Inits : OnListening(k) /\ UNCHANGED <<serverVars, clientVars, uiVars>>
  \/ \E k \in Inits : OnError(k) /\ UNCHANGED <<serverVars, clientVars, uiVars>>
  \/ close /\ UNCHANGED <<serverVars, clientVars, uiVars>>

SpecServer == InitServer /\ [][NextServer]_vars

\* A PointerInput object alone.
notPointer == <<serverVars, clientVars, lifecycleVars, dialogVars>>

InitPointer ==
  /\ ServerInit /\ ServerConstructed /\ ClientConstructed(NoClient)
  /\ PointerConstructed
  /\ NoDialog

NextPointer ==
  \/ \E c \in Centers, r \in Radii : setCurrentCenter(c, r) /\ UNCHANGED notPointer
  \/ ignoreNextMotionEvents /\ UNCHANGED notPointer
  \/ deferTurboMode /\ UNCHANGED notPointer
  \/ \E p \in Points, m \in BOOLEAN : onMotionEvent(p, m) /\ UNCHANGED notPointer
  \/ \E p \in Points, b \in Buttons :
       onPointerDownEvent(p, b) /\ UNCHANGED notPointer
  \/ \E p \in Points, b \in Buttons :
       onPointerUpEvent(p, b) /\ UNCHANGED notPointer
  \/ onKeyDownEvent /\ UNCHANGED notPointer
  \/ \E m \in BOOLEAN : onKeyUpEvent(m) /\ UNCHANGED notPointer

SpecPointer == InitPointer /\ [][NextPointer]_vars

\* A SavePresetDialog alone.
notDialog == <<serverVars, clientVars, lifecycleVars, pointerVars>>

InitDialog ==
  /\ ServerInit /\ ServerConstructed /\ ClientConstructed(NoClient)
  /\ NoPointer
  /\ DialogMounted

NextDialog ==
  \/ Show /\ UNCHANGED notDialog
  \/ Hide /\ UNCHANGED notDialog
  \/ \E name \in Names : handleInputChange(name) /\ UNCHANGED notDialog
  \/ Cancel /\ UNCHANGED notDialog
  \/ handleSave /\ UNCHANGED notDialog
  \/ \E i \in 1..MaxSaves : SaveSettled(i) /\ UNCHANGED notDialog

SpecDialog == InitDialog /\ [][NextDialog]_vars

TypeOK ==
  /\ nextObserverID \in 1..(MaxObserverID + 1)
  /\ status \in [Conns -> {"none", "open", "closed"}]
  /\ observerID \in [Conns -> -1..MaxObserverID]
  /\ handed \subseteq CallbackSets

\* ------------------------------------------------------------ vocabulary
IsCallback(o) == o.op \in {"onOpen", "onHover", "onSelect", "onCancel"}
IsShowMenu(o) ==
  o.op = "message" /\ JSONParse(o.data) /\ SafeParseShowMenu(o.data)
IsStartObserving(o) ==
  o.op = "message" /\ JSONParse(o.data) /\ ~SafeParseShowMenu(o.data)
    /\ SafeParseStartObserving(o.data)
IsStopObserving(o) ==
  o.op = "message" /\ JSONParse(o.data) /\ ~SafeParseShowMenu(o.data)
    /\ ~SafeParseStartObserving(o.data) /\ SafeParseStopObserving(o.data)
IsMalformed(o) ==
  o.op = "message"
    /\ (~JSONParse(o.data)
          \/ (~SafeParseShowMenu(o.data) /\ ~SafeParseStartObserving(o.data)
                /\ ~SafeParseStopObserving(o.data)))
Registered(c) == status[c] = "open" /\ observerID[c] # Unregistered
ErrorReply(c, reason) ==
  <<[conn |-> c,
     msg |-> [type |-> "error", target |-> NoTarget, path |-> <<>>,
              reason |-> reason]]>>

\* C1: whenever the server sends an interaction event (open-menu, hover-item,
\* select-item, cancel-menu) on a connection, that connection's observerID is
\* not -1 at that moment, whatever callbacks the host invokes.
C1_EventsOnlyWhileRegistered ==
  [][\A i \in 1..Len(sent') :
       sent'[i].msg.type \in InteractionTypes
         => observerID[sent'[i].conn] # Unregistered]_vars

\* C2: the observerIDs announced for persistent observers are 1, 2, 3, ... in
\* the order the registrations succeed, and a successful start-observing
\* message announces exactly the next one.
C2_PersistentIDsSequential ==
  /\ \A i \in 1..Len(announced) : announced[i] = i
  /\ (IsStartObserving(lastOp) /\ lastOp.held = Unregistered)
       => /\ Len(announced) >= 1
          /\ emitted = <<StartObservingEvent(Len(announced))>>
          /\ observerID[lastOp.conn] = Len(announced)

\* C2 witness: a second persistent ID was issued after an earlier persistent
\* observer disconnected.
C2_Witness ==
  /\ IsStartObserving(lastOp) /\ lastOp.held = Unregistered
  /\ Len(announced) >= 2
  /\ \E c \in Conns :
       /\ c # lastOp.conn
       /\ status[c] = "closed"
       /\ [conn |-> c, oneTime |-> FALSE] \in handed

\* C3: no two connections currently registered as observers hold the same
\* observerID.
C3_UniqueObserverIDs ==
  \A a, b \in Conns :
    (a # b /\ Registered(a) /\ Registered(b)) => observerID[a] # observerID[b]

\* C4: a callback of a callback set handed out for connection A sends exactly
\* one message, on A, and nothing on any other connection.
C4_NoBroadcast ==
  IsCallback(lastOp)
    => /\ Len(sent) = 1
       /\ \A i \in 1..Len(sent) : sent[i].conn = lastOp.conn

\* C4 witness: two observers are registered at once and the host invoked a
\* callback of one of them.
C4_Witness ==
  /\ IsCallback(lastOp)
  /\ \A c \in {1, 2} : Registered(c)
  /\ Len(sent) = 1 /\ sent[1].conn = lastOp.conn

\* C5: a valid show-menu message emits 'show-menu' with the menu and then
\* 'start-observing' with ID 0, each once, leaves the connection with
\* observerID 0 and does not change the persistent-ID counter, whatever role
\* the connection had.
C5_ShowMenuRegistersZero ==
  [][IsShowMenu(lastOp')
       => /\ emitted' = <<ShowMenuEvent(lastOp'.data.menu), StartObservingEvent(0)>>
          /\ observerID'[lastOp'.conn] = 0
          /\ nextObserverID' = nextObserverID
          /\ sent' = <<>>]_vars

\* C5 witness: a show-menu message arrived on a connection that was a
\* persistent observer.
C5_Witness ==
  /\ IsShowMenu(lastOp)
  /\ lastOp.held > 0
  /\ emitted = <<ShowMenuEvent("TestMenu"), StartObservingEvent(0)>>
  /\ observerID[lastOp.conn] = 0

C7_AlreadyObserving ==
  [][(IsStartObserving(lastOp') /\ observerID[lastOp'.conn] # Unregistered)
       => /\ sent' = ErrorReply(lastOp'.conn, "already-observing")
          /\ emitted' = <<>>
          /\ observerID' = observerID
          /\ nextObserverID' = nextObserverID
          /\ status' = status
          /\ handed' = handed]_vars

\* C7 witness: start-observing was rejected on a one-time observer.
C7_Witness ==
  /\ IsStartObserving(lastOp)
  /\ lastOp.held = 0
  /\ observerID[lastOp.conn] = 0
  /\ sent = ErrorReply(lastOp.conn, "already-observing")

\* C8: a stop-observing message on an Unregistered connection yields exactly
\* one not-observing error reply, emits nothing to the host and leaves the
\* counter and the connection's state unchanged.
C8_NotObserving ==
  [][(IsStopObserving(lastOp') /\ observerID[lastOp'.conn] = Unregistered)
       => /\ sent' = ErrorReply(lastOp'.conn, "not-observing")
          /\ emitted' = <<>>
          /\ observerID' = observerID
          /\ nextObserverID' = nextObserverID
          /\ status' = status]_vars

\* C8 witness: stop-observing was rejected on a connection that had been a
\* persistent observer and was already deregistered.
C8_Witness ==
  /\ IsStopObserving(lastOp)
  /\ lastOp.held = Unregistered
  /\ [conn |-> lastOp.conn, oneTime |-> FALSE] \in handed
  /\ sent = ErrorReply(lastOp.conn, "not-observing")
  /\ emitted = <<>>

\* C9: a stop-observing message on a registered connection emits
\* 'stop-observing' once with the observerID the connection held, resets the
\* connection's observerID to -1 and sends no reply.
C9_StopObserving ==
  [][(IsStopObserving(lastOp') /\ observerID[lastOp'.conn] # Unregistered)
       => /\ emitted' = <<StopObservingEvent(observerID[lastOp'.conn])>>
          /\ observerID' = [observerID EXCEPT ![lastOp'.conn] = Unregistered]
          /\ sent' = <<>>
          /\ nextObserverID' = nextObserverID]_vars

\* C9 witness: a persistent observer sent stop-observing.
C9_Witness ==
  /\ IsStopObserving(lastOp)
  /\ lastOp.held > 0
  /\ emitted = <<StopObservingEvent(lastOp.held)>>
  /\ observerID[lastOp.conn] = Unregistered

\* C10: when a socket closes, the host receives exactly one 'stop-observing'
\* with the connection's observerID if it is registered and none if it is
\* Unregistered, and nothing is sent on the closed connection.
C10_CloseNotifiesHost ==
  [][lastOp'.op = "close"
       => /\ emitted' = (IF observerID[lastOp'.conn] # Unregistered
                         THEN <<StopObservingEvent(observerID[lastOp'.conn])>>
                         ELSE <<>>)
          /\ sent' = <<>>
          /\ status'[lastOp'.conn] = "closed"]_vars

\* C10 witness: a persistent observer closed its socket without a prior
\* stop-observing.
C10_Witness ==
  /\ lastOp.op = "close"
  /\ lastOp.held > 0
  /\ emitted = <<StopObservingEvent(lastOp.held)>>
  /\ sent = <<>>

\* C11: a message that is not JSON, or JSON that matches none of show-menu
\* (with a valid menu), start-observing and stop-observing, yields exactly one
\* malformed-request reply on the offending connection only, emits nothing to
\* the host, changes neither the ID counter nor any connection's role and
\* leaves the connection open; a valid message that follows it on the same
\* connection is processed as on any other connection in that role.
C11_MalformedRequest ==
  [][/\ IsMalformed(lastOp')
          => /\ sent' = ErrorReply(lastOp'.conn, "malformed-request")
             /\ emitted' = <<>>
             /\ observerID' = observerID
             /\ nextObserverID' = nextObserverID
             /\ handed' = handed
             /\ status' = status
             /\ status'[lastOp'.conn] = "open"
     /\ (IsMalformed(lastOp) /\ lastOp'.op = "message"
           /\ lastOp'.conn = lastOp.conn)
          => /\ IsShowMenu(lastOp')
                  => /\ emitted' = <<ShowMenuEvent(lastOp'.data.menu),
                                     StartObservingEvent(0)>>
                     /\ sent' = <<>>
             /\ (IsStartObserving(lastOp')
                   /\ observerID[lastOp'.conn] = Unregistered)
                  => /\ emitted' = <<StartObservingEvent(nextObserverID)>>
                     /\ sent' = <<>>
             /\ (IsStopObserving(lastOp')
                   /\ observerID[lastOp'.conn] # Unregistered)
                  => /\ emitted' = <<StopObservingEvent(observerID[lastOp'.conn])>>
                     /\ sent' = <<>>]_vars

\* C11 witness: text that is not JSON arrived on a persistent observer's
\* connection while another connection was open; the observer got the error
\* reply and kept its ID.
C11_Witness ==
  /\ IsMalformed(lastOp)
  /\ ~JSONParse(lastOp.data)
  /\ lastOp.held > 0
  /\ observerID[lastOp.conn] = lastOp.held
  /\ status[lastOp.conn] = "open"
  /\ \E d \in Conns : d # lastOp.conn /\ status[d] = "open"
  /\ sent = ErrorReply(lastOp.conn, "malformed-request")
  /\ emitted = <<>>

\* C17: a client constructed with the port and the API version of the
\* discovery file of a running server, whose init() is pending, eventually
\* has init() resolved, unless the application closes the client before the
\* transport has delivered the open notification.
C17_InitSucceeds ==
  (initPromise = Pending /\ client.serverPort = ServerPort
     /\ client.serverApiVersion = clientApiVersion)
    ~> (initPromise = Resolved \/ closeCalls > 0)

\* C17 witness: init() of a client constructed with the server's port and API
\* version has just been resolved by the open notification.
C17_Witness ==
  /\ lastCall = "handleOpen"
  /\ client.serverPort = ServerPort
  /\ client.serverApiVersion = clientApiVersion
  /\ initPromise = Resolved
  /\ connectionEstablished
  /\ status[ClientConn] = "open"
  /\ closeCalls = 0

\* --------------------------------------------------- client vocabulary
HostCallbacks == {"onOpen", "onHover", "onSelect", "onCancel"}

\* The client event a callback of the host stands for.
EventName(by) ==
  CASE by = "onOpen" -> "open"
    [] by = "onHover" -> "hover"
    [] by = "onSelect" -> "select"
    [] by = "onCancel" -> "cancel"
    [] OTHER -> "none"

\* The event a listener of the client is to see for the invocation o.
EventOf(o) ==
  IF o.by \in {"onHover", "onSelect"}
  THEN ClientEvent(EventName(o.by), TargetArg(o.target), PathArg(o.path))
  ELSE ClientEvent(EventName(o.by), Undefined, Undefined)

C13_PerConnectionFIFO ==
  [][/\ (lastCall' = "handleMessage" /\ Head(invoked).by \in HostCallbacks)
          => /\ invoked' = Tail(invoked)
             /\ \/ /\ Len(clientEmitted') = 1
                   /\ clientEmitted'[1].event = EventName(Head(invoked).by)
                   /\ Head(invoked).by \in {"onHover", "onSelect"}
                        => PathArg(Head(invoked).path)
                             \in {clientEmitted'[1].a1, clientEmitted'[1].a2}
                \/ /\ clientEmitted' = <<>>
                   /\ client.kind = "IPCShowMenuClient"
                   /\ Head(invoked).by = "onOpen"
     /\ (lastCall' = "server" /\ IsCallback(lastOp') /\ socket = "open")
          => /\ Len(invoked') = Len(invoked) + 1
             /\ SubSeq(invoked', 1, Len(invoked)) = invoked
             /\ invoked'[Len(invoked')].by = lastOp'.op]_vars

\* C13 witness: the host invoked onHover and then onSelect while both frames
\* were in flight; the client has dispatched 'hover' and the select is still
\* in flight.
C13_Witness ==
  /\ lastCall = "handleMessage"
  /\ Len(clientEmitted) = 1
  /\ clientEmitted[1].event = "hover"
  /\ Len(invoked) = 1
  /\ invoked[1].by = "onSelect"
  /\ down = <<JSONStringify(SelectItemMessage("item", <<0, 1>>))>>

\* C14: with an IPCShowMenuClient whose show-menu request registered its
\* connection as observer 0, the delivery of the frame of an onHover(target,
\* path), onSelect(target, path) or onCancel() invocation makes the client
\* emit the corresponding 'hover', 'select' or 'cancel' event, and the
\* listeners of 'select' and 'hover' are called with the target and the path
\* the host passed.
C14_ShowMenuEvents ==
  [][(client.kind = "IPCShowMenuClient" /\ lastCall' = "handleMessage"
        /\ Head(invoked).by \in {"onHover", "onSelect", "onCancel"})
       => /\ clientEmitted' = <<EventOf(Head(invoked))>>
          /\ ~thrown']_vars

\* C15: init() of a client constructed with an API version other than the
\* client's own rejects with version-not-supported and creates no transport:
\* the client has no transport, nothing is in flight and the server has seen
\* no connection.
C15_VersionNotSupported ==
  client.serverApiVersion # clientApiVersion
    => /\ ws = "null"
       /\ socket = "none"
       /\ status[ClientConn] = "none"
       /\ closeCalls = 0
       /\ up = <<>>
       /\ initPromise \in {NotCalled, Rejected(eVersionNotSupported)}
       /\ lastCall = "init"
            => initPromise = Rejected(eVersionNotSupported) /\ clientEmitted = <<>>

\* C15 witness: init() was called on a client constructed with the server's
\* port and API version 999.
C15_Witness ==
  /\ lastCall = "init"
  /\ client.serverPort = ServerPort
  /\ client.serverApiVersion = 999
  /\ initPromise = Rejected(eVersionNotSupported)
  /\ ws = "null"

\* C16: when the transport reports an error before the connection was open,
\* init() rejects with connection-failed, the client's transport reference is
\* cleared and no 'error' event is emitted; afterwards the client has no
\* transport and makes no new connection attempt.
C16_ConnectionFailed ==
  /\ (lastCall = "handleError" /\ ~connectionEstablished)
       => /\ initPromise = Rejected(eConnectionFailed)
          /\ ws = "null"
          /\ clientEmitted = <<>>
          /\ ~thrown
  /\ initPromise = Rejected(eConnectionFailed)
       => /\ ws = "null"
          /\ socket = "closed"
          /\ ~connectionEstablished

\* C16 witness: nothing listens on the client's port and the transport
\* reported the error while init() was pending.
C16_Witness ==
  /\ lastCall = "handleError"
  /\ client.serverPort # ServerPort
  /\ initPromise = Rejected(eConnectionFailed)
  /\ ws = "null"
  /\ status[ClientConn] = "none"

\* C18: a showMenu, startObserving or stopObserving call on a client without a
\* transport emits exactly one 'error' event with not-connected, sends nothing
\* and changes nothing else; frames leave the client only in a request call
\* made while it has a transport, so the request is never sent later.
ClientRequests == {"showMenu", "startObserving", "stopObserving"}
C18_NotConnected ==
  [][/\ (lastCall' \in ClientRequests /\ ws = "null")
          => /\ clientEmitted' = <<ErrorEvent(eNotConnected)>>
             /\ clientSent' = <<>>
             /\ ~thrown'
             /\ up' = up
             /\ ws' = "null"
             /\ socket' = socket
             /\ initPromise' = initPromise
     /\ (clientSent' # <<>> \/ Len(up') > Len(up))
          => lastCall' \in ClientRequests /\ ws = "socket"]_vars

\* C18 witness: startObserving() was called on a client whose init() had been
\* rejected with connection-failed.
C18_Witness ==
  /\ lastCall = "startObserving"
  /\ ws = "null"
  /\ initPromise = Rejected(eConnectionFailed)
  /\ clientEmitted = <<ErrorEvent(eNotConnected)>>
  /\ clientSent = <<>>
  /\ up = <<>>

\* The frame matches none of the message schemas the client's handleMessage
\* tests.
UnknownToClient(data) ==
  \/ ~data.json
  \/ /\ ~SafeParseSelectItem(data) /\ ~SafeParseCancelMenu(data)
     /\ ~SafeParseHoverItem(data) /\ ~SafeParseError(data)
     /\ (client.kind = "IPCObserverClient" => ~SafeParseOpenMenu(data))

\* C19: after init() succeeded, the delivery of a frame that is not JSON or
\* matches none of the schemas the client knows makes the client emit an
\* 'error' event with malformed-request; the frame is not dropped silently
\* and the message handler does not throw.
C19_MalformedInbound ==
  [][(lastCall' = "handleMessage" /\ UnknownToClient(Head(down)))
       => /\ clientEmitted' = <<ErrorEvent(eMalformedRequest)>>
          /\ ~thrown']_vars

\* C20: close() leaves the client without a transport, emits nothing and does
\* not throw; it closes the transport if the client has one and otherwise
\* changes nothing; the transport is closed at most once.
C20_CloseIdempotent ==
  /\ [](closeCalls <= 1)
  /\ [][lastCall' = "close"
          => /\ ws' = "null"
             /\ clientEmitted' = <<>>
             /\ clientSent' = <<>>
             /\ ~thrown'
             /\ closeCalls' = (IF ws = "socket" THEN closeCalls + 1 ELSE closeCalls)
             /\ ws = "null"
                  => /\ socket' = socket
                     /\ initPromise' = initPromise
                     /\ connectionEstablished' = connectionEstablished
                     /\ up' = up
                     /\ down' = down]_vars

\* C20 witness: close() was called on a connected client; the transport was
\* closed once and close() can be called again.
C20_Witness ==
  /\ lastCall = "close"
  /\ initPromise = Resolved
  /\ closeCalls = 1
  /\ ws = "null"
  /\ socket = "closed"

\* C23: invocations of onOpen, onHover, onSelect and onCancel of a persistent
\* registration never change the connection's observerID and never emit
\* 'stop-observing', and an open connection that holds a persistent ID keeps
\* it until the connection itself sends stop-observing (or disconnects).
C23_PersistentSurvives ==
  [][/\ (IsCallback(lastOp') /\ ~lastOp'.oneTime)
          => observerID' = observerID /\ emitted' = <<>>
     /\ \A c \in Conns :
          (status[c] = "open" /\ observerID[c] > 0 /\ observerID'[c] # observerID[c])
            => IsStopObserving(lastOp') /\ lastOp'.conn = c]_vars

\* C24: onOpen and onHover send their event and nothing else: they emit no
\* 'stop-observing' and leave the connection's observerID as it was, so a
\* one-time observer stays observer 0 through any number of them.
C24_HoverKeepsScope ==
  lastOp.op \in {"onOpen", "onHover"}
    => /\ emitted = <<>>
       /\ observerID[lastOp.conn] = lastOp.held
       /\ Len(sent) = 1
       /\ sent[1].conn = lastOp.conn
       /\ sent[1].msg.type = (IF lastOp.op = "onOpen" THEN "open-menu" ELSE "hover-item")

\* C24 witness: the host invoked onHover of the one-time callback set of a
\* connection that is observer 0, and it still is.
C24_Witness ==
  /\ lastOp.op = "onHover"
  /\ lastOp.oneTime
  /\ lastOp.held = 0
  /\ observerID[lastOp.conn] = 0
  /\ status[lastOp.conn] = "open"
  /\ emitted = <<>>

\* C25: a connection's role changes only along the per-connection state
\* machine: to one-time observer only by a show-menu message, to persistent
\* observer only by a start-observing message received while Unregistered,
\* to Unregistered only by its own stop-observing message or by onSelect or
\* onCancel of the one-time registration that is active; no callback emits
\* 'stop-observing' with a persistent ID.
C25_RoleStateMachine ==
  [][/\ \A c \in Conns :
          /\ (observerID'[c] = 0 /\ observerID[c] # 0)
               => IsShowMenu(lastOp') /\ lastOp'.conn = c
          /\ (observerID'[c] > 0 /\ observerID'[c] # observerID[c])
               => /\ IsStartObserving(lastOp') /\ lastOp'.conn = c
                  /\ observerID[c] = Unregistered
          /\ (observerID'[c] = Unregistered /\ observerID[c] # Unregistered)
               => \/ IsStopObserving(lastOp') /\ lastOp'.conn = c
                  \/ /\ lastOp'.op \in {"onSelect", "onCancel"}
                     /\ lastOp'.oneTime
                     /\ lastOp'.conn = c
                     /\ observerID[c] = 0
     /\ IsCallback(lastOp')
          => \A i \in 1..Len(emitted') :
               emitted'[i].event = "stop-observing" => emitted'[i].id <= 0]_vars

\* C26: a registration ends only with its 'stop-observing': whenever an open
\* connection that holds an observerID gets another one, becomes Unregistered
\* or is closed, the step emits 'stop-observing' with the ID it held.
C26_NoRegistrationLost ==
  [][\A c \in Conns :
       (status[c] = "open" /\ observerID[c] # Unregistered
          /\ (observerID'[c] # observerID[c] \/ status'[c] = "closed"))
         => \E i \in 1..Len(emitted') :
              emitted'[i] = StopObservingEvent(observerID[c])]_vars

\* C27: the server never emits 'stop-observing' with the sentinel -1.
C27_StopOnlyRegistered ==
  \A i \in 1..Len(emitted) :
    emitted[i].event = "stop-observing" => emitted[i].id # Unregistered

\* C28: every connection's observerID is -1, 0 or a positive number below
\* nextObserverID; nextObserverID grows by exactly 1 in a successful
\* persistent start-observing and is unchanged by every other step.
C28_IDRange ==
  /\ [](\A c \in Conns :
          observerID[c] \in {Unregistered, 0} \cup 1..(nextObserverID - 1))
  /\ [][nextObserverID' =
          (IF IsStartObserving(lastOp') /\ observerID[lastOp'.conn] = Unregistered
           THEN nextObserverID + 1
           ELSE nextObserverID)]_vars

\* C28 witness: the second persistent registration succeeded; the counter
\* is 3 and the connection holds ID 2.
C28_Witness ==
  /\ IsStartObserving(lastOp)
  /\ lastOp.held = Unregistered
  /\ observerID[lastOp.conn] = 2
  /\ nextObserverID = 3
  /\ sent = <<>>

\* C29: a message, a close or a callback of connection A never changes the
\* observerID of another connection and never sends on another connection.
C29_ConnectionsIndependent ==
  [][\A b \in Conns :
       b # lastOp'.conn
         => /\ observerID'[b] = observerID[b]
            /\ status'[b] = status[b]
            /\ \A i \in 1..Len(sent') : sent'[i].conn # b]_vars

\* C29 witness: a persistent observer sent stop-observing while another
\* connection was a persistent observer, which kept its ID.
C29_Witness ==
  /\ IsStopObserving(lastOp)
  /\ lastOp.held > 0
  /\ observerID[lastOp.conn] = Unregistered
  /\ \E b \in Conns :
       b # lastOp.conn /\ status[b] = "open" /\ observerID[b] > 0

\* C30: the client calls ws.send only on a transport that is open.
C30_SendOnlyWhenOpen ==
  [][clientSent' # <<>> => socket = "open"]_vars

\* The 'listening' handler of the last step ran to its end: init() resolved.
InitResolved ==
  /\ lastServerCall.op = "listening"
  /\ ~lastServerCall.threw
  /\ wsServers[lastServerCall.k].promise = Resolved

\* The record of the server that is listening now.
CurrentInfo == StringifyInfo([port |-> wsServers[wss].port, apiVersion |-> cAPIVersion])

\* C21: whenever init() has resolved, ipc-info.json exists and holds the
\* port the listening socket is bound to and apiVersion 1, whatever the
\* directory held before; the file is written by the 'listening' handler
\* only.
C21_RecordAfterInit ==
  /\ [](InitResolved
          => /\ wsServers[wss].state = "listening"
             /\ port = wsServers[wss].port
             /\ infoFile = <<CurrentInfo>>)
  /\ [][infoFile' # infoFile => lastServerCall'.op = "listening"]_vars

\* C21, amended: whenever init() has resolved, the socket is bound and
\* this.port is its port; if the write of ipc-info.json succeeded, the file
\* holds that port and apiVersion 1, whatever the directory held before;
\* the file is written by the 'listening' handler only.
C21_RecordIfWritten ==
  /\ [](InitResolved
          => /\ wsServers[wss].state = "listening"
             /\ port = wsServers[wss].port
             /\ (lastServerCall.wrote => infoFile = <<CurrentInfo>>))
  /\ [][infoFile' # infoFile => lastServerCall'.op = "listening"]_vars

\* C21 witness: the first init() resolved after a write that succeeded,
\* and the file holds the record of this run.
C21_Witness ==
  /\ InitResolved
  /\ lastServerCall.wrote
  /\ infoFile = <<CurrentInfo>>
  /\ infoFile # <<StaleInfo>>
  /\ Len(wsServers) = 1

\* C22: close() on a running server closes its WebSocketServer and clears
\* the handle; close() without a handle changes nothing; no WebSocketServer
\* is closed more than once.
C22_ServerCloseIdempotent ==
  /\ [](\A k \in DOMAIN wsServers : wsServers[k].closes <= 1)
  /\ [][lastServerCall'.op = "close"
          => /\ wss' = NoWss
             /\ UNCHANGED <<port, infoFile>>
             /\ IF wss = NoWss
                THEN UNCHANGED wsServers
                ELSE wsServers' = [wsServers EXCEPT ![wss].state = "closed",
                                                    ![wss].closes = 1]]_vars

\* C22 witness: close() was called again after close() had closed the
\* listening server.
C22_Witness ==
  /\ lastServerCall = ServerCall("close", NoWss, FALSE, FALSE)
  /\ wss = NoWss
  /\ Len(wsServers) = 1
  /\ wsServers[1].closes = 1
  /\ wsServers[1].promise = Resolved

\* C31: the promise of the client's init() is settled once and by the first
\* notification of the transport: handleOpen resolves it; handleError before
\* any open rejects it with connection-failed; handleError after the open
\* emits 'error' with malformed-request, leaves the promise resolved and
\* leaves this.ws as it is.
C31_FirstNotificationDecides ==
  [][/\ initPromise \notin {NotCalled, Pending} => initPromise' = initPromise
     /\ lastCall' = "handleOpen"
          => initPromise = Pending /\ initPromise' = Resolved
     /\ (lastCall' = "handleError" /\ connectionEstablished)
          => /\ initPromise = Resolved
             /\ clientEmitted' = <<ErrorEvent(eMalformedRequest)>>
             /\ ws' = ws
     /\ (lastCall' = "handleError" /\ ~connectionEstablished)
          => /\ initPromise = Pending
             /\ initPromise' = Rejected(eConnectionFailed)
             /\ clientEmitted' = <<>>]_vars

\* C31 witness: the transport reported an error after the open; the promise
\* is still resolved, the client holds its transport and emitted 'error'.
C31_Witness ==
  /\ lastCall = "handleError"
  /\ connectionEstablished
  /\ initPromise = Resolved
  /\ ws = "socket"
  /\ clientEmitted = <<ErrorEvent(eMalformedRequest)>>

\* C32: a request that carries a known tag and a key the tag's schema does
\* not define is answered with malformed-request, changes no registration
\* and emits no event.
C32_ExtraFieldsRejected ==
  (lastOp.op = "message" /\ lastOp.data \in ExtraFieldFrames)
    => /\ sent = ErrorReply(lastOp.conn, eMalformedRequest)
       /\ emitted = <<>>
       /\ observerID[lastOp.conn] = lastOp.held

\* C33: when the socket of an init() call cannot be bound, the promise of
\* that call is rejected, the file ipc-info.json is not written, and no
\* other WebSocketServer is created in its place; a WebSocketServer that
\* failed to bind stays failed (or is closed) and never gets a port.
C33_BindFailureRejects ==
  /\ [](\A k \in DOMAIN wsServers :
          wsServers[k].promise = Rejected("bind")
            => wsServers[k].state \in {"failed", "closed"}
                 /\ wsServers[k].port = NoPort)
  /\ [][lastServerCall'.op = "error"
          => /\ wsServers[lastServerCall'.k].promise = Pending
             /\ wsServers' = [wsServers EXCEPT
                                ![lastServerCall'.k].state = "failed",
                                ![lastServerCall'.k].promise = Rejected("bind")]
             /\ UNCHANGED <<wss, port, infoFile>>]_vars

\* C33 witness: the first init() failed to bind; its promise is rejected
\* and there is no file.
C33_Witness ==
  /\ lastServerCall = ServerCall("error", 1, FALSE, FALSE)
  /\ Len(wsServers) = 1
  /\ wsServers[1].promise = Rejected("bind")
  /\ wsServers[1].state = "failed"
  /\ infoFile = <<>>

\* A step takes the button state to Dragged.
EntersDragged ==
  pointerInput.buttonState # eDragged /\ pointerInput'.buttonState = eDragged

\* A motion event that is not ignored.
MotionProcessed ==
  lastInput'.op = "onMotionEvent" /\ pointerInput.ignoreMotionEvents = 0

\* The pointer was last seen outside the click zone of the press.
LeftClickZone ==
  \/ pointerInput.clickPosition = null
  \/ ~DistanceLess(pointerInput.pointerPosition, pointerInput.clickPosition,
                   dragThreshold)

\* The marking-mode gate.
MarkingGate ==
  /\ pointerInput.enableMarkingMode
  /\ pointerInput.buttonState = eClicked
  /\ LeftClickZone

\* The turbo-mode gate of a motion event with the modifier flag of the step.
TurboGate ==
  /\ pointerInput.enableTurboMode
  /\ ~pointerInput.deferredTurboMode
  /\ pointerInput.buttonState # eDragged
  /\ pointerInput.anyKeyPressed \/ lastInput'.modifier
  /\ DistanceGreater(pointerInput.pointerPosition, pointerInput.keydownPosition,
                     dragThreshold)

\* C34: the button state becomes Dragged only in a motion event that passes
\* the marking-mode gate or the turbo-mode gate; with both modes disabled it
\* never becomes Dragged; with marking mode disabled a motion event on a
\* Clicked press that left the click zone makes it Released.
C34_DraggedOnlyThroughGates ==
  [][/\ EntersDragged => MotionProcessed /\ (MarkingGate \/ TurboGate)
     /\ (~pointerInput.enableMarkingMode /\ ~pointerInput.enableTurboMode)
          => pointerInput'.buttonState # eDragged
     /\ (MotionProcessed /\ ~pointerInput.enableMarkingMode
           /\ pointerInput.buttonState = eClicked /\ LeftClickZone)
          => pointerInput'.buttonState = eReleased]_vars

\* C34, amended: as C34, but with marking mode disabled a motion event on a
\* Clicked press that left the click zone makes it Released only if the
\* turbo-mode gate is closed; if it is open the state becomes Dragged.
C34_DraggedOnlyThroughGatesTurboFirst ==
  [][/\ EntersDragged => MotionProcessed /\ (MarkingGate \/ TurboGate)
     /\ (~pointerInput.enableMarkingMode /\ ~pointerInput.enableTurboMode)
          => pointerInput'.buttonState # eDragged
     /\ (MotionProcessed /\ ~pointerInput.enableMarkingMode
           /\ pointerInput.buttonState = eClicked /\ LeftClickZone)
          => pointerInput'.buttonState = (IF TurboGate THEN eDragged ELSE eReleased)
     /\ (MotionProcessed /\ (MarkingGate \/ TurboGate))
          => pointerInput'.buttonState = eDragged]_vars

\* C34 witness: with marking mode disabled, a motion event took a press that
\* is still held to Dragged (through the turbo-mode gate).
C34_Witness ==
  /\ lastInput.op = "onMotionEvent"
  /\ pointerInput.buttonState = eDragged
  /\ ~pointerInput.enableMarkingMode
  /\ pointerInput.enableTurboMode
  /\ pointerInput.clickPosition # null
  /\ "stateCallback" \in {lastInput.calls[i] : i \in 1..Len(lastInput.calls)}

\* C35: the pointer-up event that follows a pointer-down event of the same
\* button, which set the state to Clicked, leaves the state Released and the
\* click position cleared (so that no motion event drags without a button).
C35_PointerUpUndoesDown ==
  [][(/\ lastInput.op = "onPointerDownEvent"
      /\ pointerInput.buttonState = eClicked
      /\ lastInput'.op = "onPointerUpEvent"
      /\ lastInput'.button = lastInput.button)
       => /\ pointerInput'.buttonState = eReleased
          /\ pointerInput'.clickPosition = null]_vars

\* C36: ignoreNextMotionEvents() sets the counter to two, whatever it was;
\* a motion event that finds the counter positive only decrements it: it
\* changes nothing else and makes no call; a motion event that finds it zero
\* is processed; nothing else changes the counter, which is never negative.
C36_TwoMotionEventsIgnored ==
  /\ [](pointerInput.ignoreMotionEvents \in 0..2)
  /\ [][/\ lastInput'.op = "ignoreNextMotionEvents"
             => pointerInput' = [pointerInput EXCEPT !.ignoreMotionEvents = 2]
        /\ (lastInput'.op = "onMotionEvent" /\ pointerInput.ignoreMotionEvents > 0)
             => /\ pointerInput' = [pointerInput EXCEPT !.ignoreMotionEvents = @ - 1]
                /\ lastInput'.calls = <<>>
        /\ (lastInput'.op = "onMotionEvent" /\ pointerInput.ignoreMotionEvents = 0)
             => \E p \in Points :
                  /\ pointerInput'.pointerPosition = p
                  /\ pointerInput'.ignoreMotionEvents = 0
                  /\ (p # pointerInput.pointerPosition
                        => lastInput'.calls[1] = "stateCallback")
                  /\ (pointerInput'.buttonState = eDragged
                        => lastInput'.calls[Len(lastInput'.calls)]
                             = "gestureDetector.onMotionEvent")
        /\ lastInput'.op \notin {"ignoreNextMotionEvents", "onMotionEvent"}
             => pointerInput'.ignoreMotionEvents = pointerInput.ignoreMotionEvents]_vars

\* C36 witness: the second motion event after ignoreNextMotionEvents() was
\* ignored while a press is held: no call was made and the counter is zero.
C36_Witness ==
  /\ lastInput.op = "onMotionEvent"
  /\ lastInput.calls = <<>>
  /\ pointerInput.ignoreMotionEvents = 0
  /\ pointerInput.buttonState = eClicked
  /\ pointerInput.pointerPosition = <<30, 0>>
  /\ pointerInput.clickPosition = <<0, 0>>
  /\ pointerInput.enableMarkingMode

\* C37: deferTurboMode() sets the deferral; while it is set, a key-down event
\* changes nothing and a motion event enters Dragged only through the
\* marking-mode gate; the deferral is cleared by an onKeyUpEvent without a
\* modifier still held, and by nothing else.
C37_TurboDeferredUntilKeyUp ==
  [][/\ lastInput'.op = "deferTurboMode" => pointerInput'.deferredTurboMode
     /\ pointerInput.deferredTurboMode
          => /\ lastInput'.op = "onKeyDownEvent" => pointerInput' = pointerInput
             /\ EntersDragged => MotionProcessed /\ MarkingGate
             /\ pointerInput'.deferredTurboMode
                  = ~(lastInput'.op = "onKeyUpEvent" /\ ~lastInput'.modifier)]_vars

\* C37 witness: a key went down while turbo mode was deferred and armed
\* nothing, with turbo mode enabled and the pointer far from the key-down
\* position.
C37_Witness ==
  /\ lastInput.op = "onKeyDownEvent"
  /\ pointerInput.deferredTurboMode
  /\ pointerInput.enableTurboMode
  /\ ~pointerInput.anyKeyPressed
  /\ pointerInput.buttonState = eReleased
  /\ DistanceGreater(pointerInput.pointerPosition, pointerInput.keydownPosition,
                     dragThreshold)

\* A step of handleSave: its part before the await, or its resumption when
\* the promise of onSave has settled.
HandleSaveCalled ==
  /\ lastDialogCall'.op = "handleSave"
  /\ dialog.isVisible /\ ~dialog.isSaving

SaveRejected ==
  /\ Len(dialog'.saving) < Len(dialog.saving)
  /\ lastDialogCall'.op = "rejected"

SaveResolved ==
  /\ Len(dialog'.saving) < Len(dialog.saving)
  /\ lastDialogCall'.op = "resolved"

Count(calls, call) == Cardinality({i \in DOMAIN calls : calls[i] = call})

\* C38: handleSave closes the dialog only after a successful save.  With a
\* name that fails validation it calls neither onSave nor onClose; when
\* onSave rejects it does not call onClose, keeps the entered name and shows
\* an error; it calls onClose, exactly once, only when onSave has resolved;
\* a name equal to an existing preset up to case gives a warning only and
\* is saved.
C38_ClosesOnlyAfterSuccessfulSave ==
  [][/\ (HandleSaveCalled
         /\ validatePresetName(dialog.presetName).error # NoMessage)
        => lastDialogCall'.calls = <<>>
     /\ SaveRejected
        => (/\ Count(lastDialogCall'.calls, "onClose") = 0
            /\ dialog'.presetName = dialog.presetName
            /\ dialog'.error # NoMessage)
     /\ HandleSaveCalled => Count(lastDialogCall'.calls, "onClose") = 0
     /\ SaveResolved => Count(lastDialogCall'.calls, "onClose") = 1
     /\ (HandleSaveCalled
         /\ (\E existingName \in existingPresetNames :
               toLowerCase(existingName) = toLowerCase(trim(dialog.presetName))))
        => (/\ validatePresetName(dialog.presetName)
                 = [error |-> NoMessage, warning |-> "preset-name-exists"]
            /\ Count(lastDialogCall'.calls, "onSave") = 1)
    ]_vars
====
